---- MODULE Spec2Model ----
(***************************************************************************)
(* Model of the consultation workflow of psy_consult_agent:                *)
(* ConsultationController (src/src/controllers/consultation_controller.py) *)
(* walking its graph of nodes for one session, with the supervisor's       *)
(* oracle judgments as nondeterministic inputs.                            *)
(***************************************************************************)
EXTENDS Integers, Sequences, FiniteSets, TLC

\* ------------------------------------------------------------------------
\* Bounds of the model
\* ------------------------------------------------------------------------
\* largest max_dialogues a stage configuration of the model uses
MaxTurns == 3
\* cap on the executions of one stage handler (the graph's step ceiling,
\* scaled down): one more than the largest max_dialogues
MaxStageRuns == MaxTurns + 1
\* max_dialogues of the stages in the sessions about topic scores
TopicTurns == 2
\* last reading of the wall clock, in ticks
MaxClock == 2
\* ticks of the wall clock in one second
TicksPerSecond == 2
\* memory operations in one session of the memory system
MaxOps == 3
\* tokens in the text of an answer to a structured call
MaxTextLen == 3
\* largest final_score of a scale
MaxScaleScore == 2
\* therapists and students a training controller is constructed with
TherapistCount == 2
StudentCount == 2

\* ------------------------------------------------------------------------
\* Configuration (cbt_config.json) and oracle answers
\* ------------------------------------------------------------------------
StageNames == {"stage_1", "stage_2", "stage_3", "stage_4"}

StageIndex(s) ==
    CASE s = "stage_1" -> 1
      [] s = "stage_2" -> 2
      [] s = "stage_3" -> 3
      [] s = "stage_4" -> 4

\* hard-coded fallback of the dict lookups on topic scores
DefaultTopicScore == 5

\* hard-coded turn ceiling of the profiling loop
MAX_PROFILE_TURNS == 1

\* the step ceiling of a graph run whose ainvoke is given no config: the
\* executor library's default recursion_limit
DEFAULT_RECURSION_LIMIT == 25

\* the label the supervisor falls back to when the judgment cannot be parsed
DefaultRelevance == "slightly_relevant"

RelevanceLabels == {"relevant", "slightly_relevant", "irrelevant", "other"}

\* reward tables: label -> signed delta; the empty table is the fallback of
\* a configuration without a reward_system
FullRewards ==
    [l \in {"relevant", "slightly_relevant", "irrelevant"} |->
        CASE l = "relevant" -> 2
          [] l = "slightly_relevant" -> 1
          [] l = "irrelevant" -> -1]

EmptyRewards == [l \in {} |-> 0]

RewardTables == {FullRewards, EmptyRewards}

\* configured initial_topic_score: the default and another value
InitialScoreChoices == {DefaultTopicScore, 3}

\* required_elements of a stage: none, or two elements
RequiredElementChoices == { <<>>, <<"A", "B">> }

\* completion_threshold below and above the number of required elements
ThresholdChoices == {1, 3}

\* a stage that asks for nothing and lasts one turn; without a
\* completion_threshold the threshold is the number of required elements
ShortStage == [required_elements |-> <<>>, max_dialogues |-> 1]

\* the stage configurations under study
StageConfigs ==
    [required_elements : RequiredElementChoices,
     completion_threshold : ThresholdChoices,
     max_dialogues : {MaxTurns}]
    \cup [required_elements : RequiredElementChoices,
          max_dialogues : {MaxTurns}]
    \cup { [required_elements |-> <<"A", "B">>, max_dialogues |-> 1] }

\* cbt_stages tables in which one stage carries a configuration under study
\* and the other stages are short
OneStageTables ==
    { [s \in StageNames |-> IF s = r THEN sc ELSE ShortStage] :
          r \in StageNames, sc \in StageConfigs }

\* the oracle's completed_elements lists: a repeated element, all required
\* elements at once, a required element with one that is not required
CompletedAnswers ==
    { <<>>, <<"A", "A">>, <<"A", "B">>, <<"B", "X">> }

\* outcomes of a structured oracle call
OracleKinds == {"ok", "parse_fail", "malformed"}

NewTopicChoices == {"", "t1", "t2"}

CoreTopicChoices == {"t1"}

AblationChoices == {"none", "wo-profiler", "wo-memory"}

\* answers of the topic-relevance judgment: a parsed judgment, an answer
\* that cannot be parsed, an answer of the wrong shape
TopicJudgments ==
    { [kind |-> "ok", relevance_score |-> r, new_topic |-> n] :
          r \in RelevanceLabels, n \in NewTopicChoices }
    \cup { [kind |-> k, relevance_score |-> DefaultRelevance, new_topic |-> ""] :
              k \in {"parse_fail", "malformed"} }

\* a judgment with a label outside the reward table and no new topic
QuietTopicJudgments ==
    { [kind |-> "ok", relevance_score |-> "other", new_topic |-> ""] }

\* answers of the stage-completion check
CompletionJudgments ==
    { [kind |-> "ok", completed_elements |-> a] : a \in CompletedAnswers }
    \cup { [kind |-> k, completed_elements |-> <<>>] :
              k \in {"parse_fail", "malformed"} }

\* a check that finds nothing completed
QuietCompletionJudgments ==
    { [kind |-> "ok", completed_elements |-> <<>>] }

\* outcomes of storing the session's medical record: stored in both stores,
\* the primary write fails, the secondary write fails after the primary one
RecordOutcomes == {"ok", "primary_fails", "secondary_fails"}

\* the id a stored session record is given, and the None of a failed call
SessionRecordId == "record_1"

NoRecordId == ""

VARIABLES
    ablation_str,            \* self.ablation_str
    cbt_config,              \* self.cbt_config
    node,                    \* node of the graph to execute next
    current_profile_dialogue_index,
    is_profile_complete,
    current_cbt_stage,       \* state["current_cbt_stage"]
    cbt_stage_dialogues,     \* state["cbt_stage_dialogues"]
    cbt_stage_completions,   \* state["cbt_stage_completions"], lists
    stage_flags,             \* the is_<stage>_complete keys of state
    topic_scores,            \* state["topic_scores"], in insertion order
    core_topic,              \* state["core_topic"]
    cbt_topics_initialized,  \* state["_cbt_topics_initialized"]
    current_topic,           \* current_topic of the last stage iteration
    oracle,                  \* outcomes of the oracle calls of that iteration
    stage_runs,              \* executions of each stage handler
    current_phase,           \* state["current_phase"]
    medical_record_id,       \* state["medical_record_id"], "" while unset
    primary_write,           \* outcome of the session record's primary write
    json_files,              \* the primary directory holds files
    json_store,              \* primary store: collection -> list of documents
    vector_files,            \* the secondary directory holds files
    vector_store,            \* secondary store: collection -> list of entries
    index_exists,            \* vector_index.json exists
    vector_index,            \* vector_index.json: vector id -> row
    started,                 \* a memory manager has been initialized
    clock,                   \* wall clock, in ticks
    last_op,                 \* the last memory operation and its outcome
    mem_ops,                 \* memory operations executed
    graph_steps,             \* nodes the graph executor has run in this run
    recursion_limit,         \* the executor's step ceiling for this run
    therapist_speech,        \* how the last therapist question came about
    fn_call,                \* arguments of a call of a pure function
    fn_result,              \* what that call returned
    runs,                    \* TrainingController: the state dict of each run
    state_snapshots,         \* self.state_snapshots
    current_therapist_index, \* self.current_therapist_index
    current_student_index,   \* self.current_student_index
    current_student_agent,   \* self.current_student_agent, by its student
    sessions_table,          \* _sessions_table of the session repository
    api_response,            \* the last answer of the consultation API
    therapist_keys,          \* the state's keys that name the therapist
    strengthened,            \* modalities whose therapist strengthened a skill
    is_consultation_complete, \* state["is_consultation_complete"]
    skill_tasks,             \* session tasks inside update_skill_memory
    sessions_file,           \* what SESSIONS_FILE holds on disk
    save_tasks               \* request tasks inside SessionRepository.update

vars == <<ablation_str, cbt_config, node, current_profile_dialogue_index,
          is_profile_complete, current_cbt_stage, cbt_stage_dialogues,
          cbt_stage_completions, stage_flags, topic_scores, core_topic,
          cbt_topics_initialized, current_topic, oracle, stage_runs,
          current_phase, medical_record_id, primary_write,
          json_files, json_store, vector_files, vector_store, index_exists,
          vector_index, started, clock, last_op, mem_ops,
          graph_steps, recursion_limit, therapist_speech, fn_call, fn_result,
          runs, state_snapshots, current_therapist_index,
          current_student_index, current_student_agent, sessions_table,
          api_response, therapist_keys, strengthened,
          is_consultation_complete, skill_tasks, sessions_file, save_tasks>>

configVars == <<ablation_str, cbt_config>>
profileVars == <<current_profile_dialogue_index, is_profile_complete>>
stageVars == <<current_cbt_stage, cbt_stage_dialogues, cbt_stage_completions,
               stage_flags>>
topicVars == <<topic_scores, core_topic, cbt_topics_initialized>>
iterVars == <<current_topic, oracle, stage_runs>>
recordVars == <<current_phase, medical_record_id, primary_write>>
skillVars == <<therapist_keys, strengthened>>
replyVars == <<is_consultation_complete>>
storeVars == <<json_files, json_store, vector_files, vector_store,
               index_exists, vector_index>>
memVars == <<storeVars, started, clock, last_op, mem_ops>>
executorVars == <<graph_steps, recursion_limit>>
functionVars == <<fn_call, fn_result>>
controllerVars == <<state_snapshots, current_therapist_index,
                    current_student_index, current_student_agent>>
trainingVars == <<runs, controllerVars>>
taskVars == <<skill_tasks, sessions_file, save_tasks>>
sessionVars == <<sessions_table, api_response, taskVars>>
\* what the consultation graph and the memory system both leave alone
otherVars == <<functionVars, trainingVars, sessionVars>>

\* ------------------------------------------------------------------------
\* Helpers on Python values
\* ------------------------------------------------------------------------
Range(seq) == { seq[i] : i \in 1..Len(seq) }

\* dict.get on the ordered topic -> score map
TopicKeys(ts) == { ts[i].topic : i \in 1..Len(ts) }

TopicGet(ts, t, default) ==
    IF t \in TopicKeys(ts)
    THEN ts[CHOOSE i \in 1..Len(ts) : ts[i].topic = t].score
    ELSE default

\* dict[t] = v: an existing key keeps its position, a new key goes last
TopicSet(ts, t, v) ==
    IF t \in TopicKeys(ts)
    THEN [i \in 1..Len(ts) |->
             IF ts[i].topic = t THEN [topic |-> t, score |-> v] ELSE ts[i]]
    ELSE Append(ts, [topic |-> t, score |-> v])

\* state.get("is_<stage>_complete", False)
FlagGet(flags, s) == IF s \in DOMAIN flags THEN flags[s] ELSE FALSE

FlagSet(flags, s, v) ==
    [x \in (DOMAIN flags) \cup {s} |-> IF x = s THEN v ELSE flags[x]]

\* ------------------------------------------------------------------------
\* Topic/Completion evaluator
\* ------------------------------------------------------------------------
\* reward_system.get(relevance, 0)
RewardGet(rewards, label) ==
    IF label \in DOMAIN rewards THEN rewards[label] ELSE 0

\* max(topic_scores.items(), key=score): the scan keeps the first maximum
RECURSIVE MaxIndexFrom(_, _, _)
MaxIndexFrom(ts, i, best) ==
    IF i > Len(ts) THEN best
    ELSE MaxIndexFrom(ts, i + 1,
                      IF ts[i].score > ts[best].score THEN i ELSE best)

RECURSIVE LastMaxIndexFrom(_, _, _)
LastMaxIndexFrom(ts, i, best) ==
    IF i > Len(ts) THEN best
    ELSE LastMaxIndexFrom(ts, i + 1,
                          IF ts[i].score >= ts[best].score THEN i ELSE best)

\* a selection in which the latest-inserted maximum wins
MutSelectBestTopic(ts, core) ==
    IF ts = <<>> THEN core ELSE ts[LastMaxIndexFrom(ts, 2, 1)].topic

SelectBestTopic(ts, core) ==
    IF ts = <<>> THEN core ELSE ts[MaxIndexFrom(ts, 2, 1)].topic

\* a fallback to the label "irrelevant"
MutEvaluateTopicRelevance(kind, relevance, new_topic) ==
    IF kind = "parse_fail"
    THEN [relevance_score |-> "irrelevant", new_topic |-> ""]
    ELSE [relevance_score |-> relevance, new_topic |-> new_topic]

\* SupervisorAgent.evaluate_topic_relevance: the parsed judgment, or the
\* default dict when invoke_json could not parse the answer
EvaluateTopicRelevance(kind, relevance, new_topic) ==
    IF kind = "parse_fail"
    THEN [relevance_score |-> DefaultRelevance, new_topic |-> ""]
    ELSE [relevance_score |-> relevance, new_topic |-> new_topic]

\* an update that overwrites the entry with the delta
MutUpdateTopicScores(ts, cfg, topic, kind, result) ==
    IF kind = "malformed" THEN ts
    ELSE LET score_change == RewardGet(cfg.reward_system, result.relevance_score)
             ts1 == TopicSet(ts, topic, score_change)
         IN  IF result.new_topic # "" /\ result.new_topic \notin TopicKeys(ts1)
             THEN Append(ts1, [topic |-> result.new_topic,
                               score |-> cfg.initial_topic_score])
             ELSE ts1

\* _update_topic_scores; a malformed answer raises inside the try block
\* before anything is written
UpdateTopicScores(ts, cfg, topic, kind, result) ==
    IF kind = "malformed" THEN ts
    ELSE LET score_change == RewardGet(cfg.reward_system, result.relevance_score)
             ts1 == TopicSet(ts, topic,
                             TopicGet(ts, topic, DefaultTopicScore) + score_change)
         IN  IF result.new_topic # "" /\ result.new_topic \notin TopicKeys(ts1)
             THEN Append(ts1, [topic |-> result.new_topic,
                               score |-> cfg.initial_topic_score])
             ELSE ts1

\* result.get("completed_elements", []) of invoke_json(prompt, default_value={})
CompletedElements(kind, answer) ==
    IF kind = "parse_fail" THEN <<>> ELSE answer

\* an accumulation that appends without the membership test
RECURSIVE MutAccumulate(_, _)
MutAccumulate(done, completed) ==
    IF completed = <<>> THEN done
    ELSE MutAccumulate(Append(done, Head(completed)), Tail(completed))

\* for element in completed: append it unless already there
RECURSIVE Accumulate(_, _)
Accumulate(done, completed) ==
    IF completed = <<>> THEN done
    ELSE Accumulate(IF Head(completed) \in Range(done) THEN done
                    ELSE Append(done, Head(completed)),
                    Tail(completed))

\* the stage's completed list after _evaluate_stage_completion
EvalCompletions(done, kind, answer) ==
    IF kind = "malformed" THEN done
    ELSE Accumulate(done, CompletedElements(kind, answer))

\* len(completions) >= total_required and total_required > 0
AllRequiredDone(stage_config, done) ==
    /\ Len(done) >= Len(stage_config.required_elements)
    /\ Len(stage_config.required_elements) > 0

\* completion_criteria.get("completion_threshold", len(required_elements))
CompletionThreshold(stage_config) ==
    IF "completion_threshold" \in DOMAIN stage_config
    THEN stage_config.completion_threshold
    ELSE Len(stage_config.required_elements)

\* a check that needs more than the threshold
MutThresholdReached(stage_config, done) ==
    Len(done) > CompletionThreshold(stage_config)

ThresholdReached(stage_config, done) ==
    Len(done) >= CompletionThreshold(stage_config)

MaxDialoguesReached(stage_config, dialogues) ==
    dialogues >= stage_config.max_dialogues

\* ------------------------------------------------------------------------
\* Graph topology (_register_nodes, _define_edges)
\* ------------------------------------------------------------------------
StageNode(s) ==
    CASE s = "stage_1" -> "cbt_stage_1"
      [] s = "stage_2" -> "cbt_stage_2"
      [] s = "stage_3" -> "cbt_stage_3"
      [] s = "stage_4" -> "cbt_stage_4"

CheckNode(s) ==
    CASE s = "stage_1" -> "check_stage_1_complete"
      [] s = "stage_2" -> "check_stage_2_complete"
      [] s = "stage_3" -> "check_stage_3_complete"
      [] s = "stage_4" -> "check_stage_4_complete"

\* a branch table whose stage_2 exit leads back to stage_1
MutStageExit(s) ==
    CASE s = "stage_1" -> "cbt_stage_2"
      [] s = "stage_2" -> "cbt_stage_1"
      [] s = "stage_3" -> "cbt_stage_4"
      [] s = "stage_4" -> "final_scale"

\* the False branch of the conditional edge of check_stage_N_complete
StageExit(s) ==
    CASE s = "stage_1" -> "cbt_stage_2"
      [] s = "stage_2" -> "cbt_stage_3"
      [] s = "stage_3" -> "cbt_stage_4"
      [] s = "stage_4" -> "final_scale"

\* _should_continue_cbt_stage
ShouldContinueCbtStage(flags, s) == ~FlagGet(flags, s)

\* the conditional edge of check_stage_N_complete
StageBranch(flags, s) ==
    IF ShouldContinueCbtStage(flags, s) THEN StageNode(s) ELSE StageExit(s)

\* the unconditional edges and the ablation variants
AfterInitialScale(ablation) ==
    IF ablation # "wo-profiler" THEN "profiler_dialogue" ELSE "select_therapist"

MutAfterEvaluation(ablation) ==
    "update_agent_skills"

AfterEvaluation(ablation) ==
    IF ablation # "wo-memory" THEN "update_agent_skills" ELSE "save_medical_record"

ZeroDialogues == [s \in StageNames |-> 0]
EmptyCompletions == [s \in StageNames |-> <<>>]
NoFlags == [s \in {} |-> FALSE]
NoOracle == [topic |-> "none", completion |-> "none"]

\* ------------------------------------------------------------------------
\* Memory system: the JSON files (primary store), the vector database
\* (secondary store) and vector_index.json
\* ------------------------------------------------------------------------
Students == {"u1"}

\* the configured therapy types (therapists_config.json)
TherapyTypes == <<"cbt">>

\* f"therapist_{therapy_type}_skills"
TherapistCollection(therapy_type) ==
    CASE therapy_type = "cbt" -> "therapist_cbt_skills"

\* the collections in the order the reconciliation passes walk them
CollectionOrder ==
    <<"profiler_skills", "medical_records", "student_vectors">>
    \o [i \in 1..Len(TherapyTypes) |-> TherapistCollection(TherapyTypes[i])]

Collections == Range(CollectionOrder)

\* _get_skill_collection_name
SkillCollectionName(agent_type, therapy_type) ==
    IF agent_type = "profiler" THEN "profiler_skills"
    ELSE TherapistCollection(therapy_type)

\* document ids: a kind, a name and a number
SkillId(name) == <<"skill", name, 0>>

\* f"{therapy_type}_base_skill_1"
BaseSkillId(therapy_type) == <<"base_skill", therapy_type, 1>>

\* strftime('%Y%m%d_%H%M%S') of a clock reading: the reading cut to seconds
FormatSeconds(ticks) == ticks \div TicksPerSecond

\* f"record_{student_id}_{datetime.now().strftime('%Y%m%d_%H%M%S')}"
RecordId(student_id, ticks) == <<"record", student_id, FormatSeconds(ticks)>>

\* f"student_vector_{int(timestamp)}_{content_hash}"; the feature text, and
\* so its hash, is the student's
VectorId(student_id, ticks) ==
    <<"student_vector", student_id, FormatSeconds(ticks)>>

\* Python's None as a record id, and a document's missing metadata keys
NoRecord == <<"none", "", 0>>

NoMetadata == [student_id |-> "", record_id |-> NoRecord]

\* contents of a document
Bodies == {"a", "b"}

\* a document of a JSON file: its id, its content, the student it names
\* (studentId of a record, metadata.student_id of a feature vector), whether
\* it carries basic_info, and the metadata keys merged into it by a search
Document(id, body, student, info) ==
    [id |-> id, body |-> body, student |-> student, info |-> info,
     merged |-> NoMetadata]

\* an entry of a vector database collection: id, document and metadata
Entry(doc, metadata) == [id |-> doc.id, content |-> doc, metadata |-> metadata]

Ids(docs) == { docs[i].id : i \in 1..Len(docs) }

EmptyStore == [c \in Collections |-> <<>>]

EmptyIndex == [v \in {} |-> NoMetadata]

\* a write back of the new document alone, without the documents read
MutJsonAddDocument(docs, document) ==
    <<document>>

\* JSONMemoryStore.add_document: the first document with the same id is
\* replaced in place, a new id is appended
JsonAddDocument(docs, document) ==
    IF document.id \in Ids(docs)
    THEN LET i == CHOOSE k \in 1..Len(docs) :
                     /\ docs[k].id = document.id
                     /\ \A j \in 1..(k - 1) : docs[j].id # document.id
         IN  [docs EXCEPT ![i] = document]
    ELSE Append(docs, document)

\* LongTermMemoryStore.add_document: collection.add leaves an id that is
\* already stored as it is
VectorAddDocument(entries, entry) ==
    IF entry.id \in Ids(entries) THEN entries ELSE Append(entries, entry)

\* LongTermMemoryStore.update_document: collection.update replaces the
\* entries with the id and adds none
VectorUpdateDocument(entries, entry) ==
    [i \in 1..Len(entries) |->
        IF entries[i].id = entry.id THEN entry ELSE entries[i]]

\* LongTermMemoryStore.get_document
VectorHasDocument(entries, id) == id \in Ids(entries)

\* LongTermMemoryStore.search_documents without a query: the stored
\* documents in store order, each with its metadata merged into it
SearchDocuments(entries) ==
    [i \in 1..Len(entries) |->
        [entries[i].content EXCEPT !.merged = entries[i].metadata]]

\* ------------------------------------------------------------------------
\* Reconciliation passes (MemoryInitializer, MemorySystemInitializer); fail
\* is the set of <<collection, position>> of the documents whose store
\* write fails during the pass
\* ------------------------------------------------------------------------
\* _build_metadata_for_document
BuildMetadataForDocument(collection_name, doc) ==
    [student_id |->
        IF collection_name \in {"medical_records", "student_vectors"}
        THEN doc.student ELSE "",
     record_id |-> NoRecord]

\* the metadata _import_collection builds: none for a feature vector
ImportMetadata(collection_name, doc) ==
    [student_id |->
        IF collection_name = "medical_records" THEN doc.student ELSE "",
     record_id |-> NoRecord]

\* the loop of _sync_collection from document i on: a document whose id the
\* vector database lacks is added, and a failed add leaves the loop through
\* the handler around it
RECURSIVE SyncFrom(_, _, _, _, _, _)
SyncFrom(json_docs, i, entries, vector_doc_ids, collection_name, fail) ==
    IF i > Len(json_docs) THEN entries
    ELSE LET doc == json_docs[i]
         IN  IF doc.id \in vector_doc_ids
             THEN SyncFrom(json_docs, i + 1, entries, vector_doc_ids,
                           collection_name, fail)
             ELSE IF <<collection_name, i>> \in fail THEN entries
             ELSE SyncFrom(json_docs, i + 1,
                     VectorAddDocument(entries,
                        Entry(doc, BuildMetadataForDocument(collection_name,
                                                            doc))),
                     vector_doc_ids, collection_name, fail)

\* a pass that makes the collection a copy of the JSON file
MutSyncCollection(json_docs, entries, collection_name, fail) ==
    [i \in 1..Len(json_docs) |->
        Entry(json_docs[i],
              BuildMetadataForDocument(collection_name, json_docs[i]))]

\* _sync_collection
SyncCollection(json_docs, entries, collection_name, fail) ==
    IF json_docs = <<>> THEN entries
    ELSE SyncFrom(json_docs, 1, entries, Ids(SearchDocuments(entries)),
                  collection_name, fail)

\* _sync_json_and_vector_db
SyncJsonAndVectorDb(json, vector, fail) ==
    [c \in Collections |-> SyncCollection(json[c], vector[c], c, fail)]

\* the loop of _import_collection from document i on: a failed add is
\* logged and the loop goes on
RECURSIVE ImportFrom(_, _, _, _, _)
ImportFrom(formatted_docs, i, entries, collection_name, fail) ==
    IF i > Len(formatted_docs) THEN entries
    ELSE LET doc == formatted_docs[i]
             added == IF <<collection_name, i>> \in fail THEN entries
                      ELSE VectorAddDocument(entries,
                              Entry(doc, ImportMetadata(collection_name, doc)))
         IN  ImportFrom(formatted_docs, i + 1, added, collection_name, fail)

\* _import_collection
ImportCollection(json_docs, entries, collection_name, fail) ==
    ImportFrom(json_docs, 1, entries, collection_name, fail)

\* _rebuild_student_vectors_if_needed: a missing index file is created
\* empty; with an empty index the first record that has a student, an id and
\* basic_info is handed to VectorUtils.create_student_feature_vector, a
\* coroutine function called without await, so reading the result's "id"
\* raises, the handler around the method logs it and nothing is stored
RebuildStudentVectorsIfNeeded(exists, index) ==
    [index_exists |-> TRUE,
     vector_index |-> IF exists THEN index ELSE EmptyIndex]

\* rebuild_vector_db_from_json: the directory is removed and made again,
\* then every collection is imported
MutRebuildVectorDbFromJson(json, fail) ==
    [c \in Collections |->
        IF c = "student_vectors" THEN <<>>
        ELSE ImportCollection(json[c], <<>>, c, fail)]

RebuildVectorDbFromJson(json, fail) ==
    [c \in Collections |-> ImportCollection(json[c], <<>>, c, fail)]

\* MemoryInitializer.initialize: the vector database it finds empty is
\* rebuilt, the one it finds populated is synchronized
MutInitializerPass(json, vector, populated, fail) ==
    RebuildVectorDbFromJson(json, fail)

InitializerPass(json, vector, populated, fail) ==
    IF ~populated THEN RebuildVectorDbFromJson(json, fail)
    ELSE SyncJsonAndVectorDb(json, vector, fail)

\* the loop of _rebuild_json_from_vector_db over the documents of one
\* collection: a write that fails is logged and the loop goes on
RECURSIVE ExportFrom(_, _, _, _, _)
ExportFrom(documents, i, json_docs, collection_name, fail) ==
    IF i > Len(documents) THEN json_docs
    ELSE ExportFrom(documents, i + 1,
            IF <<collection_name, i>> \in fail THEN json_docs
            ELSE JsonAddDocument(json_docs, documents[i]),
            collection_name, fail)

\* the JSON files after _rebuild_json_from_vector_db
RebuildJsonFromVectorDb(json, vector, fail) ==
    [c \in Collections |->
        ExportFrom(SearchDocuments(vector[c]), 1, json[c], c, fail)]

\* the row _rebuild_vector_index derives from an exported document: the
\* student and the record of the document's own "metadata" field, which
\* names no record
ExportedIndexRow(doc) ==
    [student_id |-> doc.student, record_id |-> NoRecord]

\* _rebuild_vector_index: one row per document that names a student
RebuildVectorIndex(vector_documents) ==
    LET kept == { i \in 1..Len(vector_documents) :
                     vector_documents[i].student # "" }
        ids == { vector_documents[i].id : i \in kept }
    IN  [v \in ids |->
            ExportedIndexRow(
               vector_documents[CHOOSE i \in kept :
                  /\ vector_documents[i].id = v
                  /\ \A j \in kept : j > i => vector_documents[j].id # v])]

\* ------------------------------------------------------------------------
\* Stores found at startup
\* ------------------------------------------------------------------------
SkillDocument(name, body) == Document(SkillId(name), body, "", FALSE)

MedicalRecord(student_id, ticks, body) ==
    Document(RecordId(student_id, ticks), body, student_id, TRUE)

FeatureVector(student_id, ticks) ==
    Document(VectorId(student_id, ticks), "a", student_id, FALSE)

\* the metadata create_student_vector stores with a feature vector
VectorMetadata(student_id, record_id) ==
    [student_id |-> student_id, record_id |-> record_id]

\* JSON files with two skills, a record and its feature vector
PrimaryImage ==
    [EmptyStore EXCEPT
        !["profiler_skills"] = <<SkillDocument("s1", "a"),
                                 SkillDocument("s2", "a")>>,
        !["medical_records"] = <<MedicalRecord("u1", 0, "a")>>,
        !["student_vectors"] = <<FeatureVector("u1", 0)>>]

\* a vector database that holds an older version of one skill, a skill the
\* JSON files lack, and the feature vector linked to its record
SecondaryImage ==
    [EmptyStore EXCEPT
        !["profiler_skills"] =
            <<Entry(SkillDocument("s1", "b"), NoMetadata),
              Entry(SkillDocument("s3", "a"), NoMetadata)>>,
        !["student_vectors"] =
            <<Entry(FeatureVector("u1", 0),
                    VectorMetadata("u1", RecordId("u1", 0)))>>]

IndexImage ==
    [v \in {VectorId("u1", 0)} |-> VectorMetadata("u1", RecordId("u1", 0))]

StoreImage(jf, json, vf, vector, ie, index) ==
    [json_files |-> jf, json_store |-> json, vector_files |-> vf,
     vector_store |-> vector, index_exists |-> ie, vector_index |-> index]

\* neither store, only the JSON files (without an index file, with an empty
\* one, with the index of their feature vector), only the vector database,
\* both stores
StoreImages ==
    { StoreImage(FALSE, EmptyStore, FALSE, EmptyStore, FALSE, EmptyIndex),
      StoreImage(TRUE, PrimaryImage, FALSE, EmptyStore, FALSE, EmptyIndex),
      StoreImage(TRUE, PrimaryImage, FALSE, EmptyStore, TRUE, EmptyIndex),
      StoreImage(TRUE, PrimaryImage, FALSE, EmptyStore, TRUE, IndexImage),
      StoreImage(FALSE, EmptyStore, TRUE, SecondaryImage, FALSE, EmptyIndex),
      StoreImage(TRUE, PrimaryImage, TRUE, SecondaryImage, TRUE, IndexImage) }

NoOperation == [name |-> "none"]

\* no memory manager constructed: the state of the sessions of the
\* consultation graph, whose handlers are modelled by their outcomes
MemoryIdle ==
    /\ json_files = FALSE
    /\ json_store = EmptyStore
    /\ vector_files = FALSE
    /\ vector_store = EmptyStore
    /\ index_exists = FALSE
    /\ vector_index = EmptyIndex
    /\ started = FALSE
    /\ clock = 0
    /\ last_op = NoOperation
    /\ mem_ops = 0

\* ------------------------------------------------------------------------
\* Initial state: the controller constructed, System._create_initial_state
\* ------------------------------------------------------------------------
\* no function call under study, no training run, no session of the API
NoCall == [fn |-> "none"]

NoResult == [kind |-> "none"]

NoRuns == <<>>

\* self.state_snapshots = {}
NoSnapshot == <<>>

\* self.current_student_agent = None
NoStudent == -1

NoSessions == <<>>

NoResponse == [kind |-> "none"]

\* no task of a session, and a sessions file that was never written
NoTasks == <<>>

NoFile == <<>>

TasksIdle ==
    /\ skill_tasks = NoTasks
    /\ sessions_file = NoFile
    /\ save_tasks = NoTasks

FunctionsIdle ==
    /\ fn_call = NoCall
    /\ fn_result = NoResult

TrainingIdle ==
    /\ runs = NoRuns
    /\ state_snapshots = NoSnapshot
    /\ current_therapist_index = 0
    /\ current_student_index = 0
    /\ current_student_agent = NoStudent

SessionsIdle ==
    /\ sessions_table = NoSessions
    /\ api_response = NoResponse
    /\ TasksIdle

OthersIdle == FunctionsIdle /\ TrainingIdle /\ SessionsIdle

\* the state of a constructed controller before run
\* state.get(key) of a key that was never written
NoValue == "None"

\* the keys of the state that name the therapist, none written yet
NoTherapistKeys ==
    [selected_therapist_type |-> NoValue, selected_therapist |-> NoValue]

FreshSession ==
    /\ node = "initialize"
    /\ current_profile_dialogue_index = 0
    /\ is_profile_complete = FALSE
    /\ current_cbt_stage = "stage_1"
    /\ cbt_stage_dialogues = ZeroDialogues
    /\ cbt_stage_completions = EmptyCompletions
    /\ stage_flags = NoFlags
    /\ topic_scores = <<>>
    /\ core_topic = ""
    /\ cbt_topics_initialized = FALSE
    /\ current_topic = ""
    /\ oracle = NoOracle
    /\ stage_runs = ZeroDialogues
    /\ current_phase = "initial"
    /\ medical_record_id = NoRecordId
    /\ primary_write = "none"
    /\ graph_steps = 0
    /\ recursion_limit = DEFAULT_RECURSION_LIMIT
    /\ therapist_speech = "none"
    /\ therapist_keys = NoTherapistKeys
    /\ strengthened = {}
    /\ is_consultation_complete = FALSE

CbtConfig(stages, rewards, initial) ==
    [cbt_stages |-> stages, reward_system |-> rewards,
     initial_topic_score |-> initial]

\* sessions for the stage loops: every ablation with short stages, and the
\* full graph with one stage under study
Init ==
    /\ \/ /\ ablation_str \in AblationChoices
          /\ cbt_config = CbtConfig([s \in StageNames |-> ShortStage],
                                    EmptyRewards, DefaultTopicScore)
       \/ /\ ablation_str = "none"
          /\ \E t \in OneStageTables :
                cbt_config = CbtConfig(t, EmptyRewards, DefaultTopicScore)
    /\ FreshSession
    /\ MemoryIdle
    /\ OthersIdle

\* sessions for the topic scores: every ablation, reward table and initial
\* score, with a first stage that lasts TopicTurns turns and later stages
\* of one turn, which the executor's step ceiling lets finish
InitTopics ==
    /\ ablation_str \in AblationChoices
    /\ \E rw \in RewardTables, initial \in InitialScoreChoices :
          cbt_config =
             CbtConfig([s \in StageNames |->
                           [required_elements |-> <<"A", "B">>,
                            max_dialogues |->
                               IF s = "stage_1" THEN TopicTurns ELSE 1]],
                       rw, initial)
    /\ FreshSession
    /\ MemoryIdle
    /\ OthersIdle

\* ------------------------------------------------------------------------
\* Node handlers; each action runs one node and resolves its outgoing edge
\* ------------------------------------------------------------------------
\* _initialize_state
\* one superstep of the graph executor under compiled_graph.ainvoke: a node
\* is run only while the run is below its step ceiling
ExecutorStep ==
    /\ graph_steps < recursion_limit
    /\ graph_steps' = graph_steps + 1
    /\ UNCHANGED recursion_limit

\* stage_config.get("sub_questions", [])
SubQuestions(stage_config) ==
    IF "sub_questions" \in DOMAIN stage_config
    THEN stage_config.sub_questions ELSE <<>>

\* outcomes of the free-text call that words the therapist's question
SpeechCalls == {"ok", "fails"}

QuietSpeechCalls == {"ok"}

\* _cbt_therapist_speak: with sub-questions configured a failed call is
\* caught and the configured question is spoken in its place; without
\* them the call's exception leaves the handler
TherapistSpeak(stage_config, call) ==
    IF call = "ok" THEN "generated"
    ELSE IF SubQuestions(stage_config) # <<>> THEN "fallback"
    ELSE "raised"

Initialize ==
    /\ node = "initialize"
    /\ is_profile_complete' = FALSE
    /\ current_profile_dialogue_index' = 0
    /\ current_cbt_stage' = "stage_1"
    /\ cbt_stage_dialogues' = ZeroDialogues
    /\ cbt_stage_completions' = EmptyCompletions
    /\ topic_scores' = <<>>
    /\ core_topic' = ""
    /\ cbt_topics_initialized' = FALSE
    /\ current_phase' = "initial"
    /\ is_consultation_complete' = FALSE
    /\ node' = "greet_user"
    /\ ExecutorStep
    /\ UNCHANGED <<memVars, otherVars, skillVars, therapist_speech, medical_record_id, primary_write, configVars,
                   stage_flags, iterVars>>

\* _handle_greeting
GreetUser ==
    /\ node = "greet_user"
    /\ node' = "initial_scale"
    /\ ExecutorStep
    /\ UNCHANGED <<memVars, otherVars, replyVars, skillVars, therapist_speech, recordVars, configVars, profileVars, stageVars, topicVars, iterVars>>

\* _handle_initial_scale
InitialScale ==
    /\ node = "initial_scale"
    /\ node' = AfterInitialScale(ablation_str)
    /\ ExecutorStep
    /\ UNCHANGED <<memVars, otherVars, replyVars, skillVars, therapist_speech, recordVars, configVars, profileVars, stageVars, topicVars, iterVars>>

\* _handle_profiler_dialogue
ProfilerDialogue ==
    /\ node = "profiler_dialogue"
    /\ current_profile_dialogue_index' = current_profile_dialogue_index + 1
    /\ node' = "check_profiler_complete"
    /\ ExecutorStep
    /\ UNCHANGED <<memVars, otherVars, replyVars, skillVars, therapist_speech, recordVars, configVars, is_profile_complete, stageVars, topicVars,
                   iterVars>>

\* _check_profiler_complete and the edge of _should_continue_profiler; below
\* the turn ceiling the supervisor's judgment decides
CheckProfilerComplete ==
    /\ node = "check_profiler_complete"
    /\ IF current_profile_dialogue_index >= MAX_PROFILE_TURNS
       THEN is_profile_complete' = TRUE
       ELSE \E judged \in BOOLEAN :
                is_profile_complete' = (is_profile_complete \/ judged)
    /\ node' = IF ~is_profile_complete' THEN "profiler_dialogue"
               ELSE "create_portrait"
    /\ ExecutorStep
    /\ UNCHANGED <<memVars, otherVars, replyVars, skillVars, therapist_speech, recordVars, configVars, current_profile_dialogue_index, stageVars,
                   topicVars, iterVars>>

\* _handle_create_portrait
CreatePortrait ==
    /\ node = "create_portrait"
    /\ node' = "select_therapist"
    /\ ExecutorStep
    /\ UNCHANGED <<memVars, otherVars, replyVars, skillVars, therapist_speech, recordVars, configVars, profileVars, stageVars, topicVars, iterVars>>

\* _handle_therapist_selection
\* the therapy_type of self.selected_therapist, the therapist of
\* self.therapist_agents whose therapy_type is "cbt"
SelectedTherapyType == "cbt"

\* _handle_therapist_selection: the selected therapist's modality is
\* written to state["selected_therapist_type"]
SelectTherapist ==
    /\ node = "select_therapist"
    /\ node' = "initialize_cbt_topics"
    /\ ExecutorStep
    /\ therapist_keys' =
          [therapist_keys EXCEPT !.selected_therapist_type = SelectedTherapyType]
    /\ UNCHANGED <<memVars, otherVars, replyVars, strengthened, therapist_speech, recordVars, configVars, profileVars, stageVars, topicVars, iterVars>>

\* _initialize_cbt_topics: the supervisor names the core topic in a
\* free-text call, whose failure aborts the run
InitializeCbtTopics ==
    /\ node = "initialize_cbt_topics"
    /\ \/ /\ node' = "aborted"
          /\ UNCHANGED topicVars
       \/ \E extracted \in CoreTopicChoices :
             /\ IF cbt_topics_initialized
                THEN UNCHANGED topicVars
                ELSE LET core == IF core_topic = "" THEN extracted
                                 ELSE core_topic
                     IN  /\ core_topic' = core
                         /\ topic_scores' =
                               IF topic_scores = <<>>
                               THEN << [topic |-> core,
                                        score |-> cbt_config.initial_topic_score] >>
                               ELSE topic_scores
                         /\ cbt_topics_initialized' = TRUE
             /\ node' = "cbt_stage_1"
    /\ ExecutorStep
    /\ UNCHANGED <<memVars, otherVars, replyVars, skillVars, therapist_speech, recordVars, configVars, profileVars, stageVars, iterVars>>

\* lines 916-918 of _evaluate_stage_completion: the turn counter before the
\* handler's increment
DialoguesAfterEvaluation(stage_config, done, kind, dialogues) ==
    IF kind # "malformed" /\ AllRequiredDone(stage_config, done)
    THEN 1 ELSE dialogues

FlagsAfterEvaluation(stage_config, done, kind, flags, s) ==
    IF kind # "malformed" /\ AllRequiredDone(stage_config, done)
    THEN FlagSet(flags, s, TRUE) ELSE flags

\* _handle_cbt_stage: one iteration of the loop of stage s, with the
\* oracle's two judgments drawn from the given sets
\* the replies of the user in a turn: a text, or an end command
Replies == {"text", "end_command"}

QuietReplies == {"text"}

\* _get_user_input in a therapy stage: an end command sets
\* state["is_consultation_complete"] and is answered as a wish to stop
ConsultationFlagAfterReply(flag, reply) ==
    IF reply = "end_command" THEN TRUE ELSE flag

HandleCbtStage(s, topicJudgments, completionJudgments, speechCalls, replies) ==
    /\ node = StageNode(s)
    /\ stage_runs[s] < MaxStageRuns
    /\ ExecutorStep
    /\ current_cbt_stage' = s
    /\ current_topic' = SelectBestTopic(topic_scores, core_topic)
    /\ stage_runs' = [stage_runs EXCEPT ![s] = @ + 1]
    /\ \/ \* the supervisor's free-text advice call fails
          /\ node' = "aborted"
          /\ oracle' = NoOracle
          /\ UNCHANGED <<cbt_stage_dialogues, cbt_stage_completions,
                         stage_flags, topicVars, therapist_speech,
                         replyVars>>
       \/ \* the call that words the therapist's question fails where
          \* _cbt_therapist_speak does not catch it
          /\ \E call \in speechCalls :
                TherapistSpeak(cbt_config.cbt_stages[s], call) = "raised"
          /\ node' = "aborted"
          /\ oracle' = NoOracle
          /\ UNCHANGED <<cbt_stage_dialogues, cbt_stage_completions,
                         stage_flags, topicVars, therapist_speech,
                         replyVars>>
       \/ \E tj \in topicJudgments, cj \in completionJudgments,
             call \in speechCalls, reply \in replies :
             /\ TherapistSpeak(cbt_config.cbt_stages[s], call) # "raised"
             /\ is_consultation_complete' =
                   ConsultationFlagAfterReply(is_consultation_complete, reply)
             /\ therapist_speech' =
                   TherapistSpeak(cbt_config.cbt_stages[s], call)
             /\ LET stage_config == cbt_config.cbt_stages[s]
                    result == EvaluateTopicRelevance(tj.kind,
                                  tj.relevance_score, tj.new_topic)
                    done == EvalCompletions(cbt_stage_completions[s],
                                            cj.kind, cj.completed_elements)
                IN  /\ topic_scores' =
                          UpdateTopicScores(topic_scores, cbt_config,
                                            current_topic', tj.kind, result)
                    /\ cbt_stage_completions' =
                          [cbt_stage_completions EXCEPT ![s] = done]
                    /\ cbt_stage_dialogues' =
                          [cbt_stage_dialogues EXCEPT ![s] =
                              DialoguesAfterEvaluation(stage_config, done,
                                                       cj.kind, @) + 1]
                    /\ stage_flags' =
                          FlagsAfterEvaluation(stage_config, done, cj.kind,
                                               stage_flags, s)
             /\ oracle' = [topic |-> tj.kind, completion |-> cj.kind]
             /\ node' = CheckNode(s)
             /\ UNCHANGED <<core_topic, cbt_topics_initialized>>
    /\ UNCHANGED <<memVars, otherVars, skillVars, recordVars, configVars,
                   profileVars>>

\* a stage iteration of the sessions for the stage loops
StageTurn(s) ==
    HandleCbtStage(s, QuietTopicJudgments, CompletionJudgments,
                   QuietSpeechCalls, QuietReplies)

\* a stage iteration of the sessions for the topic scores
TopicTurn(s) ==
    HandleCbtStage(s, TopicJudgments, QuietCompletionJudgments,
                   QuietSpeechCalls, QuietReplies)

\* a stage iteration of the sessions for the executor and the oracle's
\* free-text calls
SpeechTurn(s) ==
    HandleCbtStage(s, QuietTopicJudgments, QuietCompletionJudgments,
                   SpeechCalls, Replies)

\* the flag written by _check_cbt_stage_complete for the current stage
CheckedFlags(stage_config, dialogues, done, flags, s) ==
    IF MaxDialoguesReached(stage_config, dialogues)
    THEN FlagSet(flags, s, TRUE)
    ELSE FlagSet(flags, s, ThresholdReached(stage_config, done))

\* _check_cbt_stage_complete followed by the conditional edge of
\* _should_continue_stage_N
CheckCbtStageComplete(s) ==
    /\ node = CheckNode(s)
    /\ LET stage_name == current_cbt_stage
       IN  stage_flags' =
              CheckedFlags(cbt_config.cbt_stages[stage_name],
                           cbt_stage_dialogues[stage_name],
                           cbt_stage_completions[stage_name],
                           stage_flags, stage_name)
    /\ node' = StageBranch(stage_flags', s)
    /\ ExecutorStep
    /\ UNCHANGED <<memVars, otherVars, replyVars, skillVars, therapist_speech, recordVars, configVars, profileVars, current_cbt_stage,
                   cbt_stage_dialogues, cbt_stage_completions, topicVars,
                   iterVars>>

\* _handle_final_scale
FinalScale ==
    /\ node = "final_scale"
    /\ node' = "evaluate_consultation"
    /\ ExecutorStep
    /\ UNCHANGED <<memVars, otherVars, replyVars, skillVars, therapist_speech, recordVars, configVars, profileVars, stageVars, topicVars, iterVars>>

\* _handle_evaluation
EvaluateConsultation ==
    /\ node = "evaluate_consultation"
    /\ node' = AfterEvaluation(ablation_str)
    /\ ExecutorStep
    /\ UNCHANGED <<memVars, otherVars, replyVars, skillVars, therapist_speech, recordVars, configVars, profileVars, stageVars, topicVars, iterVars>>

\* _update_agent_skills
\* next((t for t in self.therapist_agents if t.therapy_type == therapy_type),
\* None), by the modality of the therapist found
FindTherapist(therapy_type) ==
    IF therapy_type \in Range(TherapyTypes) THEN therapy_type ELSE NoValue

\* _update_agent_skills: the therapist named by state.get("selected_therapist")
\* strengthens a skill; when none is found the handler returns the state
UpdateAgentSkills ==
    /\ node = "update_agent_skills"
    /\ node' = "save_medical_record"
    /\ ExecutorStep
    /\ LET selected_therapist == FindTherapist(therapist_keys.selected_therapist)
       IN  IF selected_therapist # NoValue /\ ablation_str # "wo-memory"
           THEN strengthened' = strengthened \cup {selected_therapist}
           ELSE UNCHANGED strengthened
    /\ UNCHANGED <<memVars, otherVars, replyVars, therapist_keys, therapist_speech, recordVars, configVars, profileVars, stageVars, topicVars, iterVars>>

\* SupervisorAgent.create_student_medical_record: every exception raised
\* while the record is built and stored, the StateError of a failed primary
\* write included, is caught and answered with None
CreateStudentMedicalRecord(outcome) ==
    IF outcome = "ok" THEN SessionRecordId ELSE NoRecordId

\* _save_medical_record: the record id is kept when one is returned, a
\* missing id is logged, and the handler returns the state either way
SaveMedicalRecord ==
    /\ node = "save_medical_record"
    /\ \E outcome \in RecordOutcomes :
          LET record_id == CreateStudentMedicalRecord(outcome)
          IN  /\ primary_write' =
                    IF outcome = "primary_fails" THEN "failed" ELSE "written"
              /\ medical_record_id' =
                    IF record_id # NoRecordId THEN record_id
                    ELSE medical_record_id
              /\ node' = "finalize"
    /\ ExecutorStep
    /\ UNCHANGED <<memVars, otherVars, replyVars, skillVars, therapist_speech, current_phase, configVars, profileVars,
                   stageVars, topicVars, iterVars>>

\* _finalize_consultation: the terminal node
FinalizeConsultation ==
    /\ node = "finalize"
    /\ current_phase' = "completed"
    /\ node' = "END"
    /\ ExecutorStep
    /\ UNCHANGED <<memVars, otherVars, replyVars, skillVars, therapist_speech, medical_record_id, primary_write, configVars,
                   profileVars, stageVars, topicVars, iterVars>>

\* the executor gives up a run that has used its steps and has a node left
\* to run (GraphRecursionError, which run turns into ConsultationError)
GraphRecursionError ==
    /\ node \notin {"END", "aborted", "recursion_error"}
    /\ graph_steps >= recursion_limit
    /\ node' = "recursion_error"
    /\ UNCHANGED <<memVars, otherVars, replyVars, skillVars, therapist_speech, executorVars,
                   recordVars, configVars, profileVars, stageVars, topicVars,
                   iterVars>>

Next ==
    \/ Initialize
    \/ GreetUser
    \/ InitialScale
    \/ ProfilerDialogue
    \/ CheckProfilerComplete
    \/ CreatePortrait
    \/ SelectTherapist
    \/ InitializeCbtTopics
    \/ \E s \in StageNames : StageTurn(s)
    \/ \E s \in StageNames : CheckCbtStageComplete(s)
    \/ FinalScale
    \/ EvaluateConsultation
    \/ UpdateAgentSkills
    \/ SaveMedicalRecord
    \/ FinalizeConsultation
    \/ GraphRecursionError

Spec == Init /\ [][Next]_vars

NextTopics ==
    \/ Initialize
    \/ GreetUser
    \/ InitialScale
    \/ ProfilerDialogue
    \/ CheckProfilerComplete
    \/ CreatePortrait
    \/ SelectTherapist
    \/ InitializeCbtTopics
    \/ \E s \in StageNames : TopicTurn(s)
    \/ \E s \in StageNames : CheckCbtStageComplete(s)
    \/ FinalScale
    \/ EvaluateConsultation
    \/ UpdateAgentSkills
    \/ SaveMedicalRecord
    \/ FinalizeConsultation

\* the sessions for the topic scores end below the executor's step ceiling
SpecTopics == InitTopics /\ [][NextTopics]_vars

\* ------------------------------------------------------------------------
\* Runs under the executor's step ceiling, with sub-questions configured,
\* and runs entered again with the state of a finished session
\* ------------------------------------------------------------------------
\* a stage that lasts MaxTurns turns, its required elements never all met
LongStage(sub_questions) ==
    [required_elements |-> <<"A", "B">>, max_dialogues |-> MaxTurns,
     sub_questions |-> sub_questions]

\* a stage of one turn
BriefStage(sub_questions) ==
    [required_elements |-> <<>>, max_dialogues |-> 1,
     sub_questions |-> sub_questions]

SubQuestionChoices == { <<>>, <<"q1">> }

InitRun ==
    /\ ablation_str \in AblationChoices
    /\ \E q \in SubQuestionChoices :
          \/ cbt_config = CbtConfig([s \in StageNames |-> LongStage(q)],
                                    EmptyRewards, DefaultTopicScore)
          \/ cbt_config = CbtConfig([s \in StageNames |-> BriefStage(q)],
                                    EmptyRewards, DefaultTopicScore)
    /\ FreshSession
    /\ MemoryIdle
    /\ OthersIdle

\* ConsultationController.run called with the state a finished run
\* returned: the graph is entered at its entry point again
RunAgain ==
    /\ node = "END"
    /\ cbt_topics_initialized
    /\ node' = "initialize"
    /\ graph_steps' = 0
    /\ stage_runs' = ZeroDialogues
    /\ UNCHANGED <<memVars, otherVars, replyVars, skillVars, therapist_speech, recursion_limit,
                   recordVars, configVars, profileVars, stageVars, topicVars,
                   current_topic, oracle>>

NextRun ==
    \/ Initialize
    \/ GreetUser
    \/ InitialScale
    \/ ProfilerDialogue
    \/ CheckProfilerComplete
    \/ CreatePortrait
    \/ SelectTherapist
    \/ InitializeCbtTopics
    \/ \E s \in StageNames : SpeechTurn(s)
    \/ \E s \in StageNames : CheckCbtStageComplete(s)
    \/ FinalScale
    \/ EvaluateConsultation
    \/ UpdateAgentSkills
    \/ SaveMedicalRecord
    \/ FinalizeConsultation
    \/ GraphRecursionError
    \/ RunAgain

SpecRun == InitRun /\ [][NextRun]_vars

\* ------------------------------------------------------------------------
\* Memory operations
\* ------------------------------------------------------------------------
\* outcomes of a write to both stores: both written, the JSON write fails,
\* the vector database write fails after the JSON write
PutOutcomes == {"ok", "json_fails", "vector_fails"}

\* outcomes of create_student_vector: a step fails, or the process dies
\* after a step
VectorOutcomes ==
    {"ok", "add_fails", "index_fails", "json_fails", "crash_after_add"}

\* the positions of the documents of a store
Positions(store) ==
    UNION { { <<c, i>> : i \in 1..Len(store[c]) } : c \in Collections }

\* the failures of a pass that writes the documents of store whose ids
\* present lacks: none, or the write of one of these documents
FailChoices(store, present) ==
    { {} } \cup
    { {p} : p \in { q \in Positions(store) :
                      store[q[1]][q[2]].id \notin Ids(present[q[1]]) } }

\* a session of the memory system alone; the consultation graph stays at
\* its first node
InitMemory ==
    /\ ablation_str = "none"
    /\ cbt_config = CbtConfig([s \in StageNames |-> ShortStage],
                              EmptyRewards, DefaultTopicScore)
    /\ FreshSession
    /\ \E image \in StoreImages :
          /\ json_files = image.json_files
          /\ json_store = image.json_store
          /\ vector_files = image.vector_files
          /\ vector_store = image.vector_store
          /\ index_exists = image.index_exists
          /\ vector_index = image.vector_index
    /\ started = FALSE
    /\ clock = 0
    /\ last_op = NoOperation
    /\ mem_ops = 0
    /\ OthersIdle

\* the variables of the consultation graph
graphVars ==
    <<recordVars, configVars, node, profileVars, stageVars, topicVars,
      iterVars, executorVars, therapist_speech, skillVars, replyVars>>

consultationVars == <<graphVars, otherVars>>

\* JSONMemoryStore.__init__: os.makedirs and _init_files leave a file for
\* every collection in the directory
JsonFilesAfterInit(files) == TRUE

\* the branch initialize_memory_system takes
ReconciliationMode(json_exists, vector_db_exists) ==
    IF vector_db_exists /\ json_exists THEN "incremental_sync"
    ELSE IF json_exists /\ ~vector_db_exists THEN "rebuild"
    ELSE IF vector_db_exists /\ ~json_exists THEN "reverse_export"
    ELSE "initialize_empty"

\* EnhancedMemoryManager.update_skill_memory on the stores: the JSON file
\* first, then an update of the entry the vector database has, or an add
MutPutSkill(json, vector, collection_name, doc, outcome) ==
    [json |-> IF outcome = "json_fails" THEN json
              ELSE [json EXCEPT ![collection_name] =
                       JsonAddDocument(@, doc)],
     vector |-> IF outcome # "ok" THEN vector
                ELSE [vector EXCEPT ![collection_name] =
                         VectorAddDocument(@, Entry(doc, NoMetadata))]]

PutSkill(json, vector, collection_name, doc, outcome) ==
    [json |-> IF outcome = "json_fails" THEN json
              ELSE [json EXCEPT ![collection_name] =
                       JsonAddDocument(@, doc)],
     vector |-> IF outcome # "ok" THEN vector
                ELSE [vector EXCEPT ![collection_name] =
                         IF VectorHasDocument(@, doc.id)
                         THEN VectorUpdateDocument(@, Entry(doc, NoMetadata))
                         ELSE VectorAddDocument(@, Entry(doc, NoMetadata))]]

\* _ensure_therapist_collections from therapy type i on: a therapy type
\* whose collection answers no skill is given its base skill
RECURSIVE EnsureTherapistCollections(_, _, _, _)
EnsureTherapistCollections(json, vector, i, outcome) ==
    IF i > Len(TherapyTypes) THEN [json |-> json, vector |-> vector]
    ELSE LET therapy_type == TherapyTypes[i]
             collection_name == SkillCollectionName("therapist", therapy_type)
             skills == SearchDocuments(vector[collection_name])
             put == IF skills = <<>>
                    THEN PutSkill(json, vector, collection_name,
                            Document(BaseSkillId(therapy_type), "a", "",
                                     FALSE),
                            outcome)
                    ELSE [json |-> json, vector |-> vector]
         IN  EnsureTherapistCollections(put.json, put.vector, i + 1, outcome)

\* what a startup follows: no run of this kind, a run without a failure, a
\* run with one
PreviousRun(op) ==
    IF op.name # "startup" THEN "other"
    ELSE IF op.fail = {} /\ op.outcome = "ok" THEN "clean"
    ELSE "failed"

\* MemorySystemInitializer.initialize_memory_system: the memory manager is
\* constructed, the two directories are looked at, the pass of the chosen
\* mode runs and the therapist collections are ensured; client_files tells
\* whether the database client has left files in its directory by then
InitializeMemorySystem ==
    /\ mem_ops < MaxOps
    /\ \E client_files \in BOOLEAN, skill_outcome \in PutOutcomes :
       \E fail \in FailChoices(
                      IF JsonFilesAfterInit(json_files) THEN json_store
                      ELSE vector_store,
                      IF JsonFilesAfterInit(json_files)
                         /\ (vector_files \/ client_files)
                      THEN vector_store ELSE EmptyStore) :
          LET json_exists == JsonFilesAfterInit(json_files)
              vector_db_exists == vector_files \/ client_files
              mode == ReconciliationMode(json_exists, vector_db_exists)
              exported == SearchDocuments(vector_store["student_vectors"])
              json1 == IF mode = "reverse_export"
                       THEN RebuildJsonFromVectorDb(json_store, vector_store,
                                                    fail)
                       ELSE json_store
              vector1 ==
                 CASE mode = "incremental_sync" ->
                         InitializerPass(json_store, vector_store,
                                         vector_db_exists, fail)
                   [] mode = "rebuild" ->
                         RebuildVectorDbFromJson(json_store, fail)
                   [] mode = "reverse_export" -> vector_store
                   [] mode = "initialize_empty" ->
                         InitializerPass(json_store, vector_store,
                                         vector_db_exists, fail)
              rebuilt == mode = "rebuild" \/
                         (mode = "initialize_empty" /\ ~vector_db_exists)
              index1 ==
                 IF rebuilt
                 THEN RebuildStudentVectorsIfNeeded(index_exists,
                                                    vector_index)
                 ELSE IF mode = "reverse_export" /\ exported # <<>>
                 THEN [index_exists |-> TRUE,
                       vector_index |-> RebuildVectorIndex(exported)]
                 ELSE [index_exists |-> index_exists,
                       vector_index |-> vector_index]
              ensured == EnsureTherapistCollections(json1, vector1, 1,
                                                    skill_outcome)
              put == \E i \in 1..Len(TherapyTypes) :
                        vector1[TherapistCollection(TherapyTypes[i])] = <<>>
          IN  /\ json_files' = json_exists
              /\ json_store' = ensured.json
              /\ vector_files' = TRUE
              /\ vector_store' = ensured.vector
              /\ index_exists' = index1.index_exists
              /\ vector_index' = index1.vector_index
              /\ last_op' = [name |-> "startup", mode |-> mode,
                             was_json |-> json_files,
                             was_vector |-> vector_files,
                             fail |-> fail,
                             outcome |-> IF put THEN skill_outcome
                                         ELSE "ok",
                             prev |-> PreviousRun(last_op)]
    /\ started' = TRUE
    /\ mem_ops' = mem_ops + 1
    /\ UNCHANGED <<clock, consultationVars>>

\* EnhancedMemoryManager.update_skill_memory
UpdateSkillMemory ==
    /\ started
    /\ mem_ops < MaxOps
    /\ \E agent_type \in {"profiler"}, body \in Bodies,
          outcome \in PutOutcomes :
          LET collection_name ==
                 SkillCollectionName(agent_type, TherapyTypes[1])
              doc == SkillDocument("s1", body)
              put == PutSkill(json_store, vector_store, collection_name,
                              doc, outcome)
          IN  /\ json_store' = put.json
              /\ vector_store' = put.vector
              /\ last_op' = [name |-> "update_skill_memory",
                             collection_name |-> collection_name,
                             doc |-> doc, outcome |-> outcome,
                             had |-> VectorHasDocument(
                                        vector_store[collection_name],
                                        doc.id)]
    /\ mem_ops' = mem_ops + 1
    /\ UNCHANGED <<json_files, vector_files, index_exists, vector_index,
                   started, clock, consultationVars>>

\* EnhancedMemoryManager.create_medical_record: the id is built from the
\* student and the clock reading cut to seconds
CreateMedicalRecord ==
    /\ started
    /\ mem_ops < MaxOps
    /\ \E student_id \in Students, body \in {"b"}, outcome \in PutOutcomes :
          LET record_id == RecordId(student_id, clock)
              full_record == Document(record_id, body, student_id, TRUE)
          IN  /\ json_store' =
                    IF outcome = "json_fails" THEN json_store
                    ELSE [json_store EXCEPT !["medical_records"] =
                             JsonAddDocument(@, full_record)]
              /\ vector_store' =
                    IF outcome # "ok" THEN vector_store
                    ELSE [vector_store EXCEPT !["medical_records"] =
                             VectorAddDocument(@,
                                Entry(full_record,
                                      VectorMetadata(student_id, NoRecord)))]
              /\ last_op' = [name |-> "create_medical_record",
                             doc |-> full_record, outcome |-> outcome,
                             had |-> Ids(json_store["medical_records"])]
    /\ mem_ops' = mem_ops + 1
    /\ UNCHANGED <<json_files, vector_files, index_exists, vector_index,
                   started, clock, consultationVars>>

\* MemoryManager.create_student_vector: the vector database, then the index
\* file, then the JSON file, whose failed write is not looked at; the steps
\* it completes under an outcome
CreateStudentVectorSteps(outcome) ==
    [add |-> outcome # "add_fails",
     index |-> outcome \notin {"add_fails", "index_fails", "crash_after_add"},
     json |-> outcome \in {"ok", "index_fails"}]

CreateStudentVector ==
    /\ started
    /\ mem_ops < MaxOps
    /\ \E student_id \in Students, outcome \in VectorOutcomes,
          record_id \in Ids(json_store["medical_records"]) \cup {NoRecord} :
          LET vector_data == FeatureVector(student_id, clock)
              vector_id == vector_data.id
              steps == CreateStudentVectorSteps(outcome)
              row == VectorMetadata(student_id, record_id)
          IN  /\ vector_store' =
                    IF steps.add
                    THEN [vector_store EXCEPT !["student_vectors"] =
                             VectorAddDocument(@, Entry(vector_data, row))]
                    ELSE vector_store
              /\ index_exists' = (index_exists \/ steps.index \/
                                  outcome = "index_fails")
              /\ vector_index' =
                    IF steps.index
                    THEN [v \in (DOMAIN vector_index) \cup {vector_id} |->
                             IF v = vector_id THEN row ELSE vector_index[v]]
                    ELSE vector_index
              /\ json_store' =
                    IF steps.json
                    THEN [json_store EXCEPT !["student_vectors"] =
                             JsonAddDocument(@, vector_data)]
                    ELSE json_store
              /\ started' = (outcome # "crash_after_add")
              /\ last_op' = [name |-> "create_student_vector",
                             doc |-> vector_data, row |-> row,
                             outcome |-> outcome]
    /\ mem_ops' = mem_ops + 1
    /\ UNCHANGED <<json_files, vector_files, clock, consultationVars>>

\* the wall clock moves on
Tick ==
    /\ clock < MaxClock
    /\ clock' = clock + 1
    /\ UNCHANGED <<storeVars, started, last_op, mem_ops, consultationVars>>

NextMemory ==
    \/ InitializeMemorySystem
    \/ UpdateSkillMemory
    \/ CreateMedicalRecord
    \/ CreateStudentVector
    \/ Tick

SpecMemory == InitMemory /\ [][NextMemory]_vars

\* MemorySystemInitializer._rebuild_json_from_vector_db called on a memory
\* manager: every collection of the vector database is written into the
\* JSON files, and the index file is rebuilt from the feature vectors
RebuildJsonFromVectorDbPass ==
    /\ started
    /\ mem_ops < MaxOps
    /\ \E fail \in FailChoices(vector_store, EmptyStore) :
          LET exported == SearchDocuments(vector_store["student_vectors"])
          IN  /\ json_store' =
                    RebuildJsonFromVectorDb(json_store, vector_store, fail)
              /\ index_exists' = (index_exists \/ exported # <<>>)
              /\ vector_index' =
                    IF exported # <<>> THEN RebuildVectorIndex(exported)
                    ELSE vector_index
              /\ last_op' = [name |-> "reverse_export", fail |-> fail]
    /\ mem_ops' = mem_ops + 1
    /\ UNCHANGED <<json_files, vector_files, vector_store, started, clock,
                   consultationVars>>

\* the memory system with the export pass among its operations
NextExport ==
    \/ InitializeMemorySystem
    \/ CreateMedicalRecord
    \/ CreateStudentVector
    \/ RebuildJsonFromVectorDbPass
    \/ Tick

SpecExport == InitMemory /\ [][NextExport]_vars

\* ------------------------------------------------------------------------
\* Pure functions: OpenAIService.invoke_json and the improvement score of
\* SupervisorAgent.create_student_medical_record
\* ------------------------------------------------------------------------
\* the consultation graph and the memory system at rest
GraphAtRest ==
    /\ cbt_config = CbtConfig([s \in StageNames |-> ShortStage],
                              EmptyRewards, DefaultTopicScore)
    /\ FreshSession
    /\ MemoryIdle

GraphIdle ==
    /\ ablation_str = "none"
    /\ GraphAtRest

\* the text of an answer, as tokens: braces, a member of an object, a number
JsonTokens == {"{", "}", "m", "1"}

ResponseTexts == UNION { [1..n -> JsonTokens] : n \in 0..MaxTextLen }

\* default_value: None, an empty dict, a dict with a member
None == [type |-> "none", members |-> <<>>]

DefaultValues ==
    {None, [type |-> "dict", members |-> <<>>],
     [type |-> "dict", members |-> <<"d">>]}

\* the dict invoke_json builds from the parser's message
ErrorDict == [type |-> "dict", members |-> <<"error">>]

Returned(value) == [kind |-> "returned", value |-> value]

Raised == [kind |-> "raised"]

JsonDecodeError == [ok |-> FALSE, value |-> None]

\* json.loads on the tokens: a number, or an object of no or one member
JsonLoads(text) ==
    IF text = <<"1">>
    THEN [ok |-> TRUE, value |-> [type |-> "number", members |-> <<>>]]
    ELSE IF /\ Len(text) >= 2
            /\ text[1] = "{"
            /\ text[Len(text)] = "}"
            /\ SubSeq(text, 2, Len(text) - 1) \in { <<>>, <<"m">> }
         THEN [ok |-> TRUE,
               value |-> [type |-> "dict",
                          members |-> SubSeq(text, 2, Len(text) - 1)]]
         ELSE JsonDecodeError

\* re.search(r'({.*})', text, re.DOTALL): from the first opening brace to
\* the last closing brace after it; <<>> when there is no match
JsonMatch(text) ==
    LET opens == { i \in 1..Len(text) : text[i] = "{" }
        first == CHOOSE i \in opens : \A k \in opens : i <= k
        closes == { j \in 1..Len(text) : text[j] = "}" /\ j > first }
        last == CHOOSE j \in closes : \A k \in closes : k <= j
    IN  IF opens = {} THEN <<>>
        ELSE IF closes = {} THEN <<>>
        ELSE SubSeq(text, first, last)

\* the answer of self.invoke: an exception, or a text
Responses ==
    { [raises |-> TRUE, text |-> <<>>] }
    \cup { [raises |-> FALSE, text |-> t] : t \in ResponseTexts }

\* invoke_json: the parsed answer; on JSONDecodeError the default or the
\* error dict; on any other exception the default or the exception
InvokeJson(response, default_value) ==
    IF response.raises
    THEN IF default_value # None THEN Returned(default_value) ELSE Raised
    ELSE LET json_match == JsonMatch(response.text)
             parsed == IF json_match # <<>> THEN JsonLoads(json_match)
                       ELSE JsonLoads(response.text)
         IN  IF parsed.ok THEN Returned(parsed.value)
             ELSE IF default_value # None THEN Returned(default_value)
             ELSE Returned(ErrorDict)

InvokeJsonCalls ==
    { [fn |-> "invoke_json", response |-> r, default_value |-> d] :
         r \in Responses, d \in DefaultValues }

\* the scales of a session and their results
ScaleNames == {"scale_1", "scale_2"}

ScaleResults(names) == [names -> [final_score : 0..MaxScaleScore]]

\* the loops of lines 277-282: the final_score of every scale, added up
RECURSIVE TotalScore(_, _)
TotalScore(scales, names) ==
    IF names = {} THEN 0
    ELSE LET name == CHOOSE n \in names : TRUE
         IN  scales[name].final_score + TotalScore(scales, names \ {name})

\* total_improvement_score of line 284
MutTotalImprovementScore(initial_scales_result, scales_result_after_consultation) ==
    TotalScore(scales_result_after_consultation,
               DOMAIN scales_result_after_consultation)
    - TotalScore(initial_scales_result, DOMAIN initial_scales_result)

TotalImprovementScore(initial_scales_result, scales_result_after_consultation) ==
    TotalScore(initial_scales_result, DOMAIN initial_scales_result)
    - TotalScore(scales_result_after_consultation,
                 DOMAIN scales_result_after_consultation)

\* the scale fields of the medical record of lines 287-303
ScoredMedicalRecord(initial_scales_result, scales_result_after_consultation) ==
    [initialScaleResults |-> initial_scales_result,
     finalScaleResults |-> scales_result_after_consultation,
     totalImprovementScore |->
        TotalImprovementScore(initial_scales_result,
                              scales_result_after_consultation)]

MedicalRecordCalls ==
    { [fn |-> "create_student_medical_record",
       initial_scales_result |-> pre,
       scales_result_after_consultation |-> post] :
         pre \in ScaleResults(ScaleNames),
         post \in ScaleResults(ScaleNames) \cup ScaleResults({"scale_1"}) }

InitFunctions ==
    /\ GraphIdle
    /\ TrainingIdle
    /\ SessionsIdle
    /\ fn_call \in InvokeJsonCalls \cup MedicalRecordCalls
    /\ fn_result = NoResult

CallInvokeJson ==
    /\ fn_call.fn = "invoke_json"
    /\ fn_result = NoResult
    /\ fn_result' = InvokeJson(fn_call.response, fn_call.default_value)
    /\ UNCHANGED <<memVars, graphVars, trainingVars, sessionVars, fn_call>>

BuildMedicalRecord ==
    /\ fn_call.fn = "create_student_medical_record"
    /\ fn_result = NoResult
    /\ fn_result' =
          Returned(ScoredMedicalRecord(
                      fn_call.initial_scales_result,
                      fn_call.scales_result_after_consultation))
    /\ UNCHANGED <<memVars, graphVars, trainingVars, sessionVars, fn_call>>

NextFunctions ==
    \/ CallInvokeJson
    \/ BuildMedicalRecord

SpecFunctions == InitFunctions /\ [][NextFunctions]_vars

\* ------------------------------------------------------------------------
\* TrainingController: runs of the training graph on one controller
\* ------------------------------------------------------------------------
\* the forced exit of both dialogue loops: an index above this ends the loop
MAX_DIALOGUE_INDEX == 8

\* the state a run is started with
InitialRuntimeState ==
    [dialogue_history |-> <<>>,
     current_phase |-> "initial",
     current_student_index |-> 0,
     current_student_basic_info |-> NoStudent,
     current_profile_dialogue_index |-> 0,
     current_consultation_dialogue_index |-> 0,
     is_profile_complete |-> FALSE,
     is_consultation_complete |-> FALSE]

StartedRun ==
    [node |-> "initialize", state |-> InitialRuntimeState, created |-> <<>>]

\* an entry of the dialogue log: who spoke, the student whose agent took
\* part, and the therapist in session (NoTherapist while profiling)
NoTherapist == -1

LogEntry(speaker, student, therapist) ==
    [speaker |-> speaker, student |-> student, therapist |-> therapist]

\* the executor puts the keys a handler returns into the state of the run;
\* a handler that returns the empty dict changes nothing
StateUpdate(state, returned) ==
    IF returned = <<>> THEN state ELSE returned[1]

\* the run r moves to next_node with its state as the handler left it
RunStep(r, next_node, state) ==
    runs' = [runs EXCEPT ![r].node = next_node, ![r].state = state]

\* what a node of the training graph leaves alone
trainingFrame == <<memVars, graphVars, functionVars, sessionVars>>

\* _initialize_training
InitializeTraining(r) ==
    /\ runs[r].node = "initialize"
    /\ current_therapist_index' = 0
    /\ current_student_agent' = current_student_index
    /\ RunStep(r, "initial_scale",
          [runs[r].state EXCEPT
              !.dialogue_history = <<>>,
              !.current_phase = "initial",
              !.current_student_basic_info = current_student_index,
              !.current_profile_dialogue_index = 0,
              !.current_consultation_dialogue_index = 0,
              !.is_profile_complete = FALSE,
              !.is_consultation_complete = FALSE])
    /\ UNCHANGED <<state_snapshots, current_student_index, trainingFrame>>

\* the edge that leaves initial_scale
TrainingAfterInitialScale(ablation) ==
    IF ablation # "wo-profiler" THEN "profiler_dialogue"
    ELSE "start_therapist_session"

\* _handle_initial_scale
HandleInitialScale(r) ==
    /\ runs[r].node = "initial_scale"
    /\ RunStep(r, TrainingAfterInitialScale(ablation_str), runs[r].state)
    /\ UNCHANGED <<controllerVars, trainingFrame>>

\* _handle_profiler_dialogue: the profiler speaks, the student answers
HandleProfilerDialogue(r) ==
    /\ runs[r].node = "profiler_dialogue"
    /\ RunStep(r, "check_profiler_complete",
          [runs[r].state EXCEPT
              !.dialogue_history =
                  @ \o << LogEntry("profiler", NoStudent, NoTherapist),
                          LogEntry("student", current_student_agent,
                                   NoTherapist) >>])
    /\ UNCHANGED <<controllerVars, trainingFrame>>

\* _check_profiler_complete and the edge of _should_continue_profiler
TrainingCheckProfilerComplete(r, judgments) ==
    /\ runs[r].node = "check_profiler_complete"
    /\ \E judged \in judgments :
          LET state == runs[r].state
              index == IF judged
                       THEN state.current_profile_dialogue_index
                       ELSE state.current_profile_dialogue_index + 1
              complete == \/ state.is_profile_complete
                          \/ judged
                          \/ index > MAX_DIALOGUE_INDEX
          IN  RunStep(r, IF complete THEN "assess_portrait"
                         ELSE "profiler_dialogue",
                      [state EXCEPT
                          !.current_profile_dialogue_index = index,
                          !.is_profile_complete = complete])
    /\ UNCHANGED <<controllerVars, trainingFrame>>

\* _handle_assess_portrait
HandleAssessPortrait(r) ==
    /\ runs[r].node = "assess_portrait"
    /\ RunStep(r, "save_post_profiler_state", runs[r].state)
    /\ UNCHANGED <<controllerVars, trainingFrame>>

\* _save_post_profiler_state
SavePostProfilerState(r) ==
    /\ runs[r].node = "save_post_profiler_state"
    /\ state_snapshots' = << runs[r].state >>
    /\ RunStep(r, "start_therapist_session", runs[r].state)
    /\ UNCHANGED <<current_therapist_index, current_student_index,
                   current_student_agent, trainingFrame>>

\* _start_therapist_session
StartTherapistSession(r) ==
    /\ runs[r].node = "start_therapist_session"
    /\ RunStep(r, "therapist_dialogue",
          [runs[r].state EXCEPT
              !.current_consultation_dialogue_index = 0,
              !.is_consultation_complete = FALSE,
              !.current_phase = "consultation"])
    /\ UNCHANGED <<controllerVars, trainingFrame>>

\* _handle_therapist_dialogue: the therapist's words are not logged, the
\* student's answer is
HandleTherapistDialogue(r) ==
    /\ runs[r].node = "therapist_dialogue"
    /\ RunStep(r, "check_session_complete",
          [runs[r].state EXCEPT
              !.dialogue_history =
                  Append(@, LogEntry("student", current_student_agent,
                                     current_therapist_index))])
    /\ UNCHANGED <<controllerVars, trainingFrame>>

\* _check_session_complete and the edge of _should_continue_session
CheckSessionComplete(r, judgments) ==
    /\ runs[r].node = "check_session_complete"
    /\ \E judged \in judgments :
          LET state == runs[r].state
              index == IF judged
                       THEN state.current_consultation_dialogue_index
                       ELSE state.current_consultation_dialogue_index + 1
              complete == \/ state.is_consultation_complete
                          \/ judged
                          \/ index > MAX_DIALOGUE_INDEX
          IN  RunStep(r, IF complete THEN "evaluate_therapist"
                         ELSE "therapist_dialogue",
                      [state EXCEPT
                          !.current_consultation_dialogue_index = index,
                          !.is_consultation_complete = complete])
    /\ UNCHANGED <<controllerVars, trainingFrame>>

\* _evaluate_therapist
EvaluateTherapist(r) ==
    /\ runs[r].node = "evaluate_therapist"
    /\ RunStep(r, "create_student_medical_record", runs[r].state)
    /\ UNCHANGED <<controllerVars, trainingFrame>>

\* _should_continue_therapists
ShouldContinueTherapists ==
    current_therapist_index < TherapistCount - 1

\* _create_student_medical_record and the edge that leaves it: a record of
\* the state's student under the current therapist's modality is created
TrainingCreateMedicalRecord(r) ==
    /\ runs[r].node = "create_student_medical_record"
    /\ runs' = [runs EXCEPT
          ![r].node = IF ShouldContinueTherapists
                      THEN "switch_to_next_therapist"
                      ELSE "switch_to_next_student",
          ![r].created = Append(@, << runs[r].state.current_student_basic_info,
                                      current_therapist_index >>)]
    /\ UNCHANGED <<controllerVars, trainingFrame>>

\* _switch_to_next_therapist: the handler returns a copy of the snapshot;
\* an index past the last therapist raises IndexError
SwitchToNextTherapist(r) ==
    /\ runs[r].node = "switch_to_next_therapist"
    /\ current_therapist_index' = current_therapist_index + 1
    /\ IF current_therapist_index' > TherapistCount - 1
       THEN RunStep(r, "aborted", runs[r].state)
       ELSE RunStep(r, "start_therapist_session",
                    StateUpdate(runs[r].state, state_snapshots))
    /\ UNCHANGED <<state_snapshots, current_student_index,
                   current_student_agent, trainingFrame>>

\* _has_next_student
HasNextStudent(state) ==
    state.current_student_index < StudentCount - 1

\* _switch_to_next_student and the edge that leaves it
SwitchToNextStudent(r) ==
    /\ runs[r].node = "switch_to_next_student"
    /\ LET state == [runs[r].state EXCEPT !.current_student_index = @ + 1]
       IN  /\ current_student_index' = state.current_student_index
           /\ RunStep(r, IF HasNextStudent(state) THEN "initialize"
                         ELSE "end_training",
                      state)
    /\ UNCHANGED <<state_snapshots, current_therapist_index,
                   current_student_agent, trainingFrame>>

\* _end_training
EndTraining(r) ==
    /\ runs[r].node = "end_training"
    /\ RunStep(r, "END", runs[r].state)
    /\ UNCHANGED <<controllerVars, trainingFrame>>

\* the supervisor's judgments on a loop: any, or always complete
Judgments == BOOLEAN

QuietJudgments == {TRUE}

\* a controller constructed, with n runs started on it
InitTrainingRuns(n) ==
    /\ ablation_str \in AblationChoices
    /\ GraphAtRest
    /\ FunctionsIdle
    /\ SessionsIdle
    /\ runs = [r \in 1..n |-> StartedRun]
    /\ state_snapshots = NoSnapshot
    /\ current_therapist_index = 0
    /\ current_student_index = 0
    /\ current_student_agent = NoStudent

\* one training run, under every ablation
InitTraining == InitTrainingRuns(1)

NextTraining ==
    \/ InitializeTraining(1)
    \/ HandleInitialScale(1)
    \/ HandleProfilerDialogue(1)
    \/ TrainingCheckProfilerComplete(1, Judgments)
    \/ HandleAssessPortrait(1)
    \/ SavePostProfilerState(1)
    \/ StartTherapistSession(1)
    \/ HandleTherapistDialogue(1)
    \/ CheckSessionComplete(1, Judgments)
    \/ EvaluateTherapist(1)
    \/ TrainingCreateMedicalRecord(1)
    \/ SwitchToNextTherapist(1)
    \/ SwitchToNextStudent(1)
    \/ EndTraining(1)

SpecTraining == InitTraining /\ [][NextTraining]_vars

\* two runs on one controller, their nodes interleaved
ConcurrentRuns == 2

InitConcurrent == InitTrainingRuns(ConcurrentRuns)

NextConcurrent ==
    \/ \E r \in 1..ConcurrentRuns : InitializeTraining(r)
    \/ \E r \in 1..ConcurrentRuns : HandleInitialScale(r)
    \/ \E r \in 1..ConcurrentRuns : HandleProfilerDialogue(r)
    \/ \E r \in 1..ConcurrentRuns :
          TrainingCheckProfilerComplete(r, QuietJudgments)
    \/ \E r \in 1..ConcurrentRuns : HandleAssessPortrait(r)
    \/ \E r \in 1..ConcurrentRuns : SavePostProfilerState(r)
    \/ \E r \in 1..ConcurrentRuns : StartTherapistSession(r)
    \/ \E r \in 1..ConcurrentRuns : HandleTherapistDialogue(r)
    \/ \E r \in 1..ConcurrentRuns : CheckSessionComplete(r, QuietJudgments)
    \/ \E r \in 1..ConcurrentRuns : EvaluateTherapist(r)
    \/ \E r \in 1..ConcurrentRuns : TrainingCreateMedicalRecord(r)
    \/ \E r \in 1..ConcurrentRuns : SwitchToNextTherapist(r)
    \/ \E r \in 1..ConcurrentRuns : SwitchToNextStudent(r)
    \/ \E r \in 1..ConcurrentRuns : EndTraining(r)

SpecConcurrent == InitConcurrent /\ [][NextConcurrent]_vars

TypeOK ==
    /\ ablation_str \in AblationChoices
    /\ cbt_stage_dialogues \in [StageNames -> Nat]
    /\ stage_runs \in [StageNames -> 0..MaxStageRuns]
    /\ DOMAIN stage_flags \subseteq StageNames
    /\ current_cbt_stage \in StageNames

\* ------------------------------------------------------------------------
\* Properties
\* ------------------------------------------------------------------------
\* a step that runs the handler of stage s
HandlerStep(s) ==
    node = StageNode(s) /\ stage_runs'[s] = stage_runs[s] + 1

\* a handler step that reached the end of the iteration
StageStep(s) == HandlerStep(s) /\ node' = CheckNode(s)

NoDuplicates(seq) ==
    \A i \in 1..Len(seq), j \in 1..Len(seq) : seq[i] = seq[j] => i = j

\* C1: after every check_stage_N_complete step the run advances to the next
\* node iff the stage's turn counter has reached max_dialogues or the
\* completed list has reached the completion threshold, and otherwise loops
\* back to the handler of the same stage
C1_AdvanceIffComplete ==
    [][\A s \in StageNames :
          node = CheckNode(s) /\ node' # node =>
             LET stage_config == cbt_config.cbt_stages[s]
                 threshold ==
                    IF "completion_threshold" \in DOMAIN stage_config
                    THEN stage_config.completion_threshold
                    ELSE Len(stage_config.required_elements)
                 complete ==
                    \/ cbt_stage_dialogues[s] >= stage_config.max_dialogues
                    \/ Len(cbt_stage_completions[s]) >= threshold
             IN  /\ complete =>
                       node' = IF s = "stage_4" THEN "final_scale"
                               ELSE StageNode(CHOOSE n \in StageNames :
                                       StageIndex(n) = StageIndex(s) + 1)
                 /\ ~complete => node' = StageNode(s)]_vars

\* C1 witness: a stage was left after its second turn, below max_dialogues,
\* because its completed list had reached the threshold
C1_Witness ==
    \E s \in StageNames :
       /\ node = StageExit(s)
       /\ stage_runs[s] = 2
       /\ cbt_stage_dialogues[s] < cbt_config.cbt_stages[s].max_dialogues
       /\ Len(cbt_stage_completions[s]) >=
             CompletionThreshold(cbt_config.cbt_stages[s])
       /\ FlagGet(stage_flags, s)

\* C2: the handler of a stage is executed at most max_dialogues times
C2_AtMostMaxTurns ==
    \A s \in StageNames :
       stage_runs[s] <= cbt_config.cbt_stages[s].max_dialogues

\* C3: each iteration of a stage increases that stage's turn counter by
\* exactly 1 and leaves the other stages' counters unchanged
C3_CounterPlusOne ==
    [][\A s \in StageNames :
          StageStep(s) =>
             /\ cbt_stage_dialogues'[s] = cbt_stage_dialogues[s] + 1
             /\ \A o \in StageNames \ {s} :
                   cbt_stage_dialogues'[o] = cbt_stage_dialogues[o]]_vars

\* C4: a completion flag that is true is never observed false afterwards
C4_FlagStaysTrue ==
    [][\A s \in StageNames :
          FlagGet(stage_flags, s) => FlagGet(stage_flags', s)]_vars

\* position of a node in the order profiling, stage_1..stage_4, final
NodeRank(n) ==
    CASE n \in {"cbt_stage_1", "check_stage_1_complete"} -> 1
      [] n \in {"cbt_stage_2", "check_stage_2_complete"} -> 2
      [] n \in {"cbt_stage_3", "check_stage_3_complete"} -> 3
      [] n \in {"cbt_stage_4", "check_stage_4_complete"} -> 4
      [] n \in {"final_scale", "evaluate_consultation", "update_agent_skills",
                "save_medical_record", "finalize", "END"} -> 5
      [] OTHER -> 0

\* C5: the stage the run is in never decreases in the order profiling,
\* stage_1, stage_2, stage_3, stage_4, final, and neither does
\* current_cbt_stage: a stage that was left is never executed again
C5_StagesMonotonic ==
    [][/\ node' \notin {"aborted", "recursion_error"} =>
             NodeRank(node') >= NodeRank(node)
       /\ StageIndex(current_cbt_stage') >= StageIndex(current_cbt_stage)
       /\ \A s \in StageNames :
             HandlerStep(s) => NodeRank(node) = StageIndex(s)]_vars

\* C5 witness: a finished run in which every stage ran and one looped
C5_Witness ==
    /\ node = "END"
    /\ \A s \in StageNames : stage_runs[s] >= 1
    /\ \E s \in StageNames : stage_runs[s] >= 2

\* C6: every step leaves each stage's completed list a superset of what it
\* was, and the list never holds an element twice
C6_CompletedOnlyGrows ==
    [][\A s \in StageNames :
          /\ Range(cbt_stage_completions[s])
                \subseteq Range(cbt_stage_completions'[s])
          /\ NoDuplicates(cbt_stage_completions'[s])]_vars

\* C6 witness: a list grown over two turns whose answers repeated elements
C6_Witness ==
    \E s \in StageNames :
       /\ cbt_stage_completions[s] = <<"A", "B", "X">>
       /\ stage_runs[s] = 2

\* deltas of the configured reward table, and 0 for a label outside it
RewardDeltas == { cbt_config.reward_system[l] :
                     l \in DOMAIN cbt_config.reward_system } \cup {0}

ScoreOf(ts, t) == ts[CHOOSE i \in 1..Len(ts) : ts[i].topic = t].score

\* C7: a topic enters topic_scores with the configured initial score, and
\* every later value of its entry is the previous value plus a delta of the
\* reward table
C7_InitialThenAdditive ==
    [][\A i \in 1..Len(topic_scores') :
          LET t == topic_scores'[i].topic
          IN  IF t \in TopicKeys(topic_scores)
              THEN topic_scores'[i].score - ScoreOf(topic_scores, t)
                      \in RewardDeltas
              ELSE topic_scores'[i].score = cbt_config.initial_topic_score]_vars

\* C7 witness: a discovered topic whose score has moved, under a configured
\* initial score other than the hard-coded default
C7_Witness ==
    /\ Len(topic_scores) = 2
    /\ cbt_config.initial_topic_score # DefaultTopicScore
    /\ topic_scores[2].score > cbt_config.initial_topic_score
    /\ topic_scores[1].score < cbt_config.initial_topic_score

\* t is the earliest-inserted topic among those of maximal score
IsFirstMaximum(ts, t) ==
    \E i \in 1..Len(ts) :
       /\ ts[i].topic = t
       /\ \A j \in 1..Len(ts) : ts[j].score <= ts[i].score
       /\ \A j \in 1..(i - 1) : ts[j].score < ts[i].score

\* C8: the topic chosen at the start of a stage iteration has maximal score,
\* and among topics of maximal score it is the earliest inserted
C8_BestTopicFirstMax ==
    [][\A s \in StageNames :
          HandlerStep(s) => IsFirstMaximum(topic_scores, current_topic')]_vars

\* C8 witness: an iteration chose the first of two topics of equal score
C8_Witness ==
    /\ node \in { CheckNode(s) : s \in StageNames }
    /\ Len(topic_scores) = 2
    /\ topic_scores[1].score = topic_scores[2].score
    /\ oracle.topic = "malformed"
    /\ current_topic = topic_scores[1].topic

\* C9 as stated: when the topic-relevance answer cannot be parsed the topic
\* scores are left as they were and the iteration goes on
C9_ParseFailNoChange ==
    [][\A s \in StageNames :
          HandlerStep(s) /\ oracle'.topic = "parse_fail" =>
             topic_scores' = topic_scores /\ node' = CheckNode(s)]_vars

\* C9 amended: when the topic-relevance answer cannot be parsed the active
\* topic's score changes by the reward table's delta for the label
\* slightly_relevant (0 when the table has no such label), no other entry
\* changes, no topic is inserted, and the iteration goes on
C9_ParseFailDefaultLabel ==
    [][\A s \in StageNames :
          HandlerStep(s) /\ oracle'.topic = "parse_fail" =>
             LET delta ==
                    IF "slightly_relevant" \in DOMAIN cbt_config.reward_system
                    THEN cbt_config.reward_system["slightly_relevant"]
                    ELSE 0
             IN  /\ Len(topic_scores') = Len(topic_scores)
                 /\ \A i \in 1..Len(topic_scores) :
                       /\ topic_scores'[i].topic = topic_scores[i].topic
                       /\ topic_scores'[i].score =
                             topic_scores[i].score +
                             (IF topic_scores[i].topic = current_topic'
                              THEN delta ELSE 0)
                 /\ node' = CheckNode(s)]_vars

\* C9 witness: an iteration whose relevance answer could not be parsed, with
\* a reward table that rewards slightly_relevant, a second topic present
C9_Witness ==
    /\ oracle.topic = "parse_fail"
    /\ node \in { CheckNode(s) : s \in StageNames }
    /\ cbt_config.reward_system = FullRewards
    /\ Len(topic_scores) = 2

\* C10: when the completion answer cannot be parsed the stage's completed
\* list and completion flags are left as they were, and the iteration still
\* counts as one turn
C10_ParseFailNoEffect ==
    [][\A s \in StageNames :
          HandlerStep(s) /\ oracle'.completion = "parse_fail" =>
             /\ cbt_stage_completions' = cbt_stage_completions
             /\ stage_flags' = stage_flags
             /\ cbt_stage_dialogues'[s] = cbt_stage_dialogues[s] + 1
             /\ node' = CheckNode(s)]_vars

\* ------------------------------------------------------------------------
\* Properties of the memory system
\* ------------------------------------------------------------------------
\* a step of initialize_memory_system
StartupStep == mem_ops' = mem_ops + 1 /\ last_op'.name = "startup"

IsPrefix(front, whole) ==
    /\ Len(front) <= Len(whole)
    /\ \A i \in 1..Len(front) : whole[i] = front[i]

\* the document ids a step has put into a collection of the vector database
Inserted(c) == Ids(vector_store'[c]) \ Ids(vector_store[c])

\* C11: the mode a startup runs in is the one the two stores as they were
\* before startup call for: neither populated, initialize both empty; only
\* the JSON files, rebuild; only the vector database, reverse export; both,
\* incremental sync
C11_ModeFromStoresBeforeStartup ==
    last_op.name = "startup" =>
       last_op.mode = ReconciliationMode(last_op.was_json, last_op.was_vector)

\* C12: an incremental sync puts into each collection of the vector
\* database only ids the JSON file has and the collection lacked, keeps
\* every entry the collection had as it was, and after a pass without a
\* failure every id of the JSON file is in the collection
C12_SyncInsertsMissingOnly ==
    [][StartupStep /\ last_op'.mode = "incremental_sync" =>
          \A c \in Collections :
             /\ IsPrefix(vector_store[c], vector_store'[c])
             /\ Inserted(c) \subseteq
                   Ids(json_store'[c]) \ Ids(vector_store[c])
             /\ (last_op'.fail = {} /\ last_op'.outcome = "ok" =>
                    Ids(json_store'[c]) \subseteq Ids(vector_store'[c]))]_vars

\* C12 witness: a first startup without a failure has synchronized the two
\* stores: the skill the vector database lacked is in it, the older version
\* of a skill and the skill the JSON files lack are still there
C12_Witness ==
    /\ last_op.name = "startup"
    /\ last_op.mode = "incremental_sync"
    /\ last_op.was_vector
    /\ last_op.fail = {}
    /\ mem_ops = 1
    /\ SkillId("s2") \in Ids(vector_store["profiler_skills"])
    /\ Entry(SkillDocument("s1", "b"), NoMetadata)
          \in Range(vector_store["profiler_skills"])
    /\ SkillId("s3") \in Ids(vector_store["profiler_skills"])

\* C13: a startup that follows a startup without a failure inserts nothing
\* and leaves the JSON files, the vector database and the index as they
\* were; a startup that follows a startup with a failure only inserts ids
\* the vector database still lacked, keeps its entries and the index, and
\* when it meets no failure itself leaves every id of the JSON files in the
\* vector database
C13_IdempotentAndResumable ==
    [][StartupStep =>
          /\ (last_op'.prev = "clean" => storeVars' = storeVars)
          /\ (last_op'.prev = "failed" =>
                 /\ vector_index' = vector_index
                 /\ index_exists' = index_exists
                 /\ \A c \in Collections :
                       /\ IsPrefix(vector_store[c], vector_store'[c])
                       /\ IsPrefix(json_store[c], json_store'[c])
                       /\ Inserted(c) \subseteq
                             Ids(json_store'[c]) \ Ids(vector_store[c])
                       /\ (last_op'.fail = {} /\ last_op'.outcome = "ok" =>
                              Ids(json_store'[c]) \subseteq
                                 Ids(vector_store'[c])))]_vars

\* C13 witness: a second startup in a row, after a first one that rebuilt
\* the vector database from the JSON files without a failure
C13_Witness ==
    /\ last_op.name = "startup"
    /\ last_op.prev = "clean"
    /\ mem_ops = 2
    /\ vector_store["profiler_skills"] =
          <<Entry(SkillDocument("s1", "a"), NoMetadata),
            Entry(SkillDocument("s2", "a"), NoMetadata)>>

\* the ids of a collection of the vector database that a startup step's
\* pass has left, the base skill the step has put after the pass aside
PassIds(c) ==
    Ids(vector_store'[c]) \
       { id \in { BaseSkillId(TherapyTypes[i]) : i \in 1..Len(TherapyTypes) } :
            id \notin Ids(json_store[c]) }

\* the entries of a collection bear distinct ids
DistinctIds(entries) == Cardinality(Ids(entries)) = Len(entries)

C15_FailureSkipsOneDocument ==
    last_op.name = "startup" /\ last_op.outcome = "ok" =>
       \A c \in Collections :
          \A i \in 1..Len(json_store[c]) :
             <<c, i>> \notin last_op.fail =>
                json_store[c][i].id \in Ids(vector_store[c])

\* C16: after an export pass without a failure every document of the vector
\* database is in the JSON files, and every feature vector stored with a
\* linked record has an index row with its student and its linked record
C16_ExportKeepsSubjectAndRecord ==
    last_op.name = "reverse_export" /\ last_op.fail = {} =>
       /\ \A c \in Collections : Ids(vector_store[c]) \subseteq Ids(json_store[c])
       /\ \A i \in 1..Len(vector_store["student_vectors"]) :
             LET entry == vector_store["student_vectors"][i]
             IN  entry.metadata.record_id # NoRecord =>
                    /\ entry.id \in DOMAIN vector_index
                    /\ vector_index[entry.id] =
                          VectorMetadata(entry.metadata.student_id,
                                         entry.metadata.record_id)

\* C17: once an operation of the memory system has run, every vector id
\* with a row in the index has an entry in the student_vectors collection of
\* the vector database
C17_NoDanglingIndexRows ==
    last_op.name # "none" =>
       \A v \in DOMAIN vector_index :
          v \in Ids(vector_store["student_vectors"])

\* occurrences of an id among the documents of a JSON file
JsonCount(docs, id) == Cardinality({ i \in 1..Len(docs) : docs[i].id = id })

\* C18: after update_skill_memory has returned, the JSON file and the
\* collection of the vector database each hold exactly one document with
\* the entry's id, with the new content, and an id that was there before
\* has not added a document
C18_SkillPutIsUpsert ==
    [][mem_ops' = mem_ops + 1 /\ last_op'.name = "update_skill_memory"
          /\ last_op'.outcome = "ok" =>
          LET c == last_op'.collection_name
              doc == last_op'.doc
          IN  /\ JsonCount(json_store'[c], doc.id) = 1
              /\ JsonCount(vector_store'[c], doc.id) = 1
              /\ \E i \in 1..Len(json_store'[c]) : json_store'[c][i] = doc
              /\ \E i \in 1..Len(vector_store'[c]) :
                    vector_store'[c][i].content = doc
              /\ (doc.id \in Ids(json_store[c]) =>
                     Len(json_store'[c]) = Len(json_store[c]))
              /\ (doc.id \in Ids(vector_store[c]) =>
                     Len(vector_store'[c]) = Len(vector_store[c]))]_vars

\* C18 witness: right after the first startup, which synchronized the two
\* stores, a skill the vector database held in an older version has been
\* put again
C18_Witness ==
    /\ last_op.name = "update_skill_memory"
    /\ last_op.outcome = "ok"
    /\ last_op.had
    /\ last_op.doc = SkillDocument("s1", "a")
    /\ mem_ops = 2
    /\ SkillId("s3") \in Ids(vector_store["profiler_skills"])

\* C19: a record that create_medical_record has written bears an id no
\* record of the JSON file bore before the call
C19_RecordIdsDistinct ==
    last_op.name = "create_medical_record" /\ last_op.outcome # "json_fails" =>
       last_op.doc.id \notin last_op.had

\* C20: a session whose medical record could not be written to the JSON
\* files goes on neither to finalize nor to the end, and its phase is never
\* completed
C20_PrimaryFailureAborts ==
    primary_write = "failed" =>
       /\ node \notin {"finalize", "END"}
       /\ current_phase # "completed"

\* ------------------------------------------------------------------------
\* C21: a free-text call of the oracle that fails inside a node handler ends
\* the run; no therapist question is the fallback text put in the place of
\* a failed call
C21_NoFailureReplacedByFallback ==
    therapist_speech = "fallback" => node = "aborted"

\* C23: a run whose stage loops each take no more than max_dialogues turns
\* is not stopped by the executor's step ceiling
C23_LegitimateRunBelowCeiling ==
    node = "recursion_error" =>
       \E s \in StageNames :
          stage_runs[s] > cbt_config.cbt_stages[s].max_dialogues

\* C29: when the graph is entered with the guard flag of the topic
\* initialization set, the first node leaves the stage turn counters, the
\* completed lists, the core topic and the topic scores as they are
C29_ReentryKeepsStageState ==
    [][(node = "initialize" /\ cbt_topics_initialized) =>
          /\ cbt_stage_dialogues' = cbt_stage_dialogues
          /\ cbt_stage_completions' = cbt_stage_completions
          /\ core_topic' = core_topic
          /\ topic_scores' = topic_scores]_vars

\* the answer a structured call parses out of a text: what json.loads makes
\* of the braces span, or of the whole text when there is no span
ParsedAnswer(text) ==
    IF JsonMatch(text) # <<>> THEN JsonLoads(JsonMatch(text))
    ELSE JsonLoads(text)

\* C22: when the text of a structured call cannot be parsed the call
\* returns the supplied default, or fails when none is supplied; whatever
\* it returns is the parsed answer or the supplied default
C22_ParseFailureDefaultOrError ==
    (fn_call.fn = "invoke_json" /\ fn_result # NoResult
        /\ ~fn_call.response.raises) =>
       LET parsed == ParsedAnswer(fn_call.response.text)
           default_value == fn_call.default_value
       IN  /\ ~parsed.ok =>
                 IF default_value # None
                 THEN fn_result = Returned(default_value)
                 ELSE fn_result = Raised
           /\ fn_result.kind = "returned" =>
                 \/ parsed.ok /\ fn_result.value = parsed.value
                 \/ default_value # None /\ fn_result.value = default_value

\* the sum of the final scores of a session's scales
ScaleSum(scales) ==
    (IF "scale_1" \in DOMAIN scales THEN scales["scale_1"].final_score ELSE 0)
    + (IF "scale_2" \in DOMAIN scales THEN scales["scale_2"].final_score
       ELSE 0)

\* C25: the improvement score of a medical record is the sum of the scale
\* scores before the session minus the sum of those after it, with its sign
C25_ImprovementScoreIsPreMinusPost ==
    (fn_call.fn = "create_student_medical_record" /\ fn_result # NoResult) =>
       /\ fn_result.kind = "returned"
       /\ fn_result.value.totalImprovementScore
             = ScaleSum(fn_call.initial_scales_result)
               - ScaleSum(fn_call.scales_result_after_consultation)

\* C25 witness: the record of a session after which the scales are worse,
\* with a negative score
C25_Witness ==
    /\ fn_call.fn = "create_student_medical_record"
    /\ fn_result # NoResult
    /\ fn_result.value.totalImprovementScore < 0
    /\ ScaleSum(fn_call.initial_scales_result)
          < ScaleSum(fn_call.scales_result_after_consultation)

\* the nodes of the full consultation graph in the order of its edges
FullGraphOrder ==
    << "initialize", "greet_user", "initial_scale", "profiler_dialogue",
       "check_profiler_complete", "create_portrait", "select_therapist",
       "initialize_cbt_topics", "cbt_stage_1", "check_stage_1_complete",
       "cbt_stage_2", "check_stage_2_complete", "cbt_stage_3",
       "check_stage_3_complete", "cbt_stage_4", "check_stage_4_complete",
       "final_scale", "evaluate_consultation", "update_agent_skills",
       "save_medical_record", "finalize", "END" >>

\* the nodes an ablation leaves out of the graph
OmittedNodes(ablation) ==
    CASE ablation = "wo-profiler" ->
            {"profiler_dialogue", "check_profiler_complete", "create_portrait"}
      [] ablation = "wo-memory" -> {"update_agent_skills"}
      [] OTHER -> {}

GraphPosition(n) ==
    CHOOSE i \in 1..Len(FullGraphOrder) : FullGraphOrder[i] = n

\* the first node after n in the full graph's order that the ablation keeps
NextKept(n, ablation) ==
    LET later == { i \in 1..Len(FullGraphOrder) :
                     /\ i > GraphPosition(n)
                     /\ FullGraphOrder[i] \notin OmittedNodes(ablation) }
    IN  FullGraphOrder[CHOOSE i \in later : \A k \in later : i <= k]

\* the node a check node of the full graph loops back to
LoopBack(n) ==
    CASE n = "check_profiler_complete" -> "profiler_dialogue"
      [] n = "check_stage_1_complete" -> "cbt_stage_1"
      [] n = "check_stage_2_complete" -> "cbt_stage_2"
      [] n = "check_stage_3_complete" -> "cbt_stage_3"
      [] n = "check_stage_4_complete" -> "cbt_stage_4"
      [] OTHER -> n

\* C24: under an ablation no omitted node is ever the node to run, and a
\* step of the run goes where the full graph goes once the omitted nodes
\* are skipped: after initial_scale to select_therapist without the
\* profiler, after evaluate_consultation to save_medical_record without
\* the memory
C24_AblationOmitsNodesOnly ==
    [][/\ node' \notin OmittedNodes(ablation_str)
       /\ (node' \notin {"aborted", "recursion_error"} /\ node' # node) =>
             node' \in {NextKept(node, ablation_str), LoopBack(node)}]_vars

\* C24 witness: a run without the profiler has finished, no profiling turn
\* taken
C24_Witness ==
    /\ ablation_str = "wo-profiler"
    /\ node = "END"
    /\ current_profile_dialogue_index = 0

\* C26: once a session is initialized, every node handler leaves the
\* dialogue log it found as a prefix of the log it returns
C26_DialogueLogAppendOnly ==
    [][\A r \in DOMAIN runs :
          runs[r].node # "initialize" =>
             IsPrefix(runs[r].state.dialogue_history,
                      runs'[r].state.dialogue_history)]_vars

\* the dialogue log a training run ends with when it runs alone and the
\* supervisor judges every loop complete at its first check
AloneHistory(ablation) ==
    IF ablation = "wo-profiler"
    THEN [i \in 1..TherapistCount |-> LogEntry("student", 0, i - 1)]
    ELSE << LogEntry("profiler", NoStudent, NoTherapist),
            LogEntry("student", 0, NoTherapist),
            LogEntry("student", 0, TherapistCount - 1) >>

\* C27: of two runs interleaved on one controller each ends, and ends with
\* the state it ends with alone
C27_RunsDoNotInterfere ==
    \A r \in DOMAIN runs :
       /\ runs[r].node # "aborted"
       /\ runs[r].node = "END" =>
             runs[r].state.dialogue_history = AloneHistory(ablation_str)

\* the profiling rounds a run has held with its student: the profiler's
\* entries in the log
ProfilingRounds(state) ==
    Cardinality({ i \in 1..Len(state.dialogue_history) :
                    state.dialogue_history[i].speaker = "profiler" })

UserCount == 2
MaxSessions == 1

Users == 1..UserCount

sessionFrame == <<memVars, graphVars, functionVars, trainingVars, taskVars>>

\* the state the application controller returns for a new session: the
\* greeting is the last output and the session waits for a reply
StartNewSession ==
    [turns |-> 0, current_phase |-> "initial", is_complete |-> FALSE,
     wait_for_user_input |-> TRUE, surveyed |-> FALSE]

\* the application controller resumes the run with one reply; reached is
\* whether the run reaches its terminal node on this reply, and a run that
\* does is marked complete; waits is the flag the controller leaves for
\* the next request
ProcessUserMessage(state, reached, waits) ==
    [state EXCEPT !.turns = @ + 1,
                  !.current_phase = IF reached THEN "completed" ELSE "consultation",
                  !.is_complete = reached,
                  !.wait_for_user_input = waits]

\* the same for an answered survey
ProcessUserSurvey(state, reached, waits) ==
    [ProcessUserMessage(state, reached, waits) EXCEPT !.surveyed = TRUE]

\* whether a run resumed with this reply reaches its terminal node: it
\* may at any reply and does at the last turn
TerminalReached(state) ==
    IF state.turns + 1 >= MaxTurns THEN {TRUE} ELSE BOOLEAN

\* the empty dict a session is created with
EmptyState == <<>>

\* SessionRepository.create: a new row, created and updated now
RepoCreate(table, user_id, initial_state) ==
    Append(table, [user_id |-> user_id, session_status |-> "initial",
                   updated_at |-> 0, state |-> initial_state])

\* SessionRepository.update: the state is replaced, the status follows its
\* phase and the update time moves on
RepoUpdate(table, session_id, new_state) ==
    IF session_id \in DOMAIN table
    THEN [table EXCEPT ![session_id].state = new_state,
                       ![session_id].session_status = new_state.current_phase,
                       ![session_id].updated_at = @ + 1]
    ELSE table

\* the guard of send_message and send_survey on a session that has ended
MutSessionClosed(session) ==
    FALSE

SessionClosed(session) ==
    session.state.is_complete

HttpError(status) == [kind |-> "error", status |-> status]

ConsultationResponse(session_id, agent_output, is_complete) ==
    [kind |-> "ok", session_id |-> session_id, agent_output |-> agent_output,
     is_complete |-> is_complete]

\* POST /consultation/start
StartSession(payload_user, caller) ==
    /\ Len(sessions_table) < MaxSessions
    /\ IF payload_user # caller
       THEN /\ api_response' = HttpError(403)
            /\ UNCHANGED sessions_table
       ELSE LET session_id == Len(sessions_table) + 1
                created == RepoCreate(sessions_table, caller, EmptyState)
            IN  /\ sessions_table' =
                      RepoUpdate(created, session_id, StartNewSession)
                /\ api_response' =
                      ConsultationResponse(session_id, "dialogue", FALSE)
    /\ UNCHANGED sessionFrame

\* the controller call of a reply route
ProcessReply(route, state, reached, waits) ==
    IF route = "survey"
    THEN ProcessUserSurvey(state, reached, waits)
    ELSE ProcessUserMessage(state, reached, waits)

\* the body shared by the two reply routes
SubmitReply(session_id, caller, route) ==
    IF session_id \notin DOMAIN sessions_table
    THEN /\ api_response' = HttpError(404)
         /\ UNCHANGED sessions_table
    ELSE LET session == sessions_table[session_id] IN
         IF session.user_id # caller
         THEN /\ api_response' = HttpError(403)
              /\ UNCHANGED sessions_table
         ELSE IF SessionClosed(session)
         THEN /\ api_response' =
                 ConsultationResponse(session_id, "session_ended", TRUE)
              /\ UNCHANGED sessions_table
         ELSE IF ~session.state.wait_for_user_input
         THEN /\ api_response' = HttpError(400)
              /\ UNCHANGED sessions_table
         ELSE \E reached \in TerminalReached(session.state), waits \in BOOLEAN :
                 LET updated_state ==
                        ProcessReply(route, session.state, reached, waits) IN
                 /\ sessions_table' =
                       RepoUpdate(sessions_table, session_id, updated_state)
                 /\ api_response' =
                       ConsultationResponse(session_id, "dialogue",
                                            updated_state.is_complete)

\* POST /consultation/{session_id}/message
SendMessage(session_id, caller) ==
    /\ SubmitReply(session_id, caller, "message")
    /\ UNCHANGED sessionFrame

\* POST /consultation/{session_id}/survey
SendSurvey(session_id, caller) ==
    /\ SubmitReply(session_id, caller, "survey")
    /\ UNCHANGED sessionFrame

InitSession ==
    /\ ablation_str = "none"
    /\ GraphAtRest
    /\ FunctionsIdle
    /\ TrainingIdle
    /\ SessionsIdle

NextSession ==
    \/ \E payload_user \in Users, caller \in Users :
          StartSession(payload_user, caller)
    \/ \E session_id \in 1..(MaxSessions + 1), caller \in Users :
          SendMessage(session_id, caller)
    \/ \E session_id \in 1..(MaxSessions + 1), caller \in Users :
          SendSurvey(session_id, caller)

SpecSession == InitSession /\ [][NextSession]_vars

\* a session whose run has reached the terminal node
Finalized(session) == session.state.current_phase = "completed"

FinalState ==
    [current_phase |-> current_phase,
     current_cbt_stage |-> current_cbt_stage,
     cbt_stage_dialogues |-> cbt_stage_dialogues,
     cbt_stage_completions |-> cbt_stage_completions,
     medical_record_id |-> medical_record_id]

\* raise ConsultationError(message) from cause: the exception holds its
\* message and, as __cause__, the error it was raised from
ConsultationError(message, cause) ==
    [kind |-> "raised", error |-> "ConsultationError",
     message |-> message, cause |-> cause]

\* what ainvoke raised when the run did not reach END
RunFailureCause ==
    IF node = "recursion_error" THEN "GraphRecursionError" ELSE "ConsultationError"

\* run returns the final state of ainvoke, or wraps whatever it raised
RunOutcome ==
    IF node = "END"
    THEN Returned(FinalState)
    ELSE ConsultationError("run failed", RunFailureCause)

ReturnFromRun ==
    /\ node \in {"END", "aborted", "recursion_error"}
    /\ fn_result = NoResult
    /\ fn_call' = [fn |-> "run"]
    /\ fn_result' = RunOutcome
    /\ UNCHANGED <<memVars, graphVars, trainingVars, sessionVars>>

NextCaller ==
    \/ Initialize
    \/ GreetUser
    \/ InitialScale
    \/ ProfilerDialogue
    \/ CheckProfilerComplete
    \/ CreatePortrait
    \/ SelectTherapist
    \/ InitializeCbtTopics
    \/ \E s \in StageNames : SpeechTurn(s)
    \/ \E s \in StageNames : CheckCbtStageComplete(s)
    \/ FinalScale
    \/ EvaluateConsultation
    \/ UpdateAgentSkills
    \/ SaveMedicalRecord
    \/ FinalizeConsultation
    \/ GraphRecursionError
    \/ ReturnFromRun

SpecCaller == InitRun /\ [][NextCaller]_vars

\* C31: the error a failed run returns to its caller carries the causing
\* error and the last committed session state
C31_ErrorCarriesCauseAndState ==
    fn_result.kind = "raised" =>
       /\ "cause" \in DOMAIN fn_result
       /\ "state" \in DOMAIN fn_result

\* the (student, therapist) pairs of a training over all students and
\* therapists
TrainingPairs == (0..(StudentCount - 1)) \X (0..(TherapistCount - 1))

\* how often a run has created a record for a pair
RecordsCreated(run, pair) ==
    Cardinality({ i \in 1..Len(run.created) : run.created[i] = pair })

\* C32: a training run that has ended has executed record creation exactly
\* once for each (student, therapist) pair
C32_OneRecordPerPair ==
    \A r \in DOMAIN runs :
       runs[r].node = "END" =>
          \A pair \in TrainingPairs : RecordsCreated(runs[r], pair) = 1

\* the pairs in the order of a training: student 0 with every therapist,
\* then student 1, ...
PairsInOrder ==
    [i \in 1..(StudentCount * TherapistCount) |->
        << (i - 1) \div TherapistCount, (i - 1) % TherapistCount >>]

\* C37: a training run ends after visiting the pairs in order, each once,
\* with at most nine profiling rounds per student and nine dialogue rounds
\* per therapist session
C37_AllPairsVisitedInOrder ==
    \A r \in DOMAIN runs :
       /\ runs[r].state.current_profile_dialogue_index <= MAX_DIALOGUE_INDEX + 1
       /\ runs[r].state.current_consultation_dialogue_index
             <= MAX_DIALOGUE_INDEX + 1
       /\ runs[r].node = "END" => runs[r].created = PairsInOrder

\* C33: a consultation run with memory that has ended has had the selected
\* therapist strengthen a skill, so a skill memory of that modality is stored
C33_SelectedTherapistStrengthened ==
    (node = "END" /\ ablation_str # "wo-memory") =>
       SelectedTherapyType \in strengthened

\* C34: every element of a stage's accumulated completed list is one of
\* the stage's configured required elements
C34_CompletedWithinRequired ==
    \A s \in StageNames :
       Range(cbt_stage_completions[s])
          \subseteq Range(cbt_config.cbt_stages[s].required_elements)

\* every id of a secondary collection is an id of its primary collection
PrimaryCovers(primary, secondary) ==
    \A c \in Collections : Ids(secondary[c]) \subseteq Ids(primary[c])

\* C35: a repository write or a reconciliation run that returns, with or
\* without a failed write, leaves every document id of a secondary
\* collection present in the primary collection when it found the stores so
C35_PrimaryStaysAuthoritative ==
    [][(PrimaryCovers(json_store, vector_store) /\ started /\ started') =>
          PrimaryCovers(json_store', vector_store')]_vars

\* C36: under every ablation the state a therapist session starts with
\* holds the current student and nothing written during a therapist's
\* session
C36_SessionStartsFromSnapshot ==
    \A r \in DOMAIN runs :
       runs[r].node = "start_therapist_session" =>
          /\ runs[r].state.current_student_basic_info = current_student_index
          /\ \A i \in 1..Len(runs[r].state.dialogue_history) :
                runs[r].state.dialogue_history[i].therapist = NoTherapist

\* C38: once the user has entered an end command as the reply of a
\* therapy-stage turn, no therapy-stage handler is the node to run
C38_EndCommandStopsStages ==
    is_consultation_complete => node \notin { StageNode(s) : s \in StageNames }

\* ---------------------------------------------------------------------
\* Session tasks that update skill memories on one memory manager
\* (memory/enhanced_memory_manager.py, memory/json_store.py)
\* ---------------------------------------------------------------------

\* session tasks on the event loop; each makes one call
SkillTaskCount == 2

SkillTasks == 1..SkillTaskCount

\* skill_data["id"] of each task's skill: the ids differ between tasks
SkillTaskNames == <<"t1", "t2", "t3", "t4">>

SkillAgentTypes == {"profiler", "therapist"}

\* a task before its call: nothing added yet
SkillTaskIdle ==
    [pc |-> "idle", agent_type |-> "profiler", body |-> "a",
     existing |-> FALSE, added |-> {}]

TaskCollection(task) == SkillCollectionName(task.agent_type, TherapyTypes[1])

TaskDocument(t) == SkillDocument(SkillTaskNames[t], skill_tasks[t].body)

skillFrame ==
    <<graphVars, functionVars, trainingVars, sessions_table, api_response,
      sessions_file, save_tasks, json_files, vector_files, index_exists,
      vector_index, started, clock, last_op, mem_ops>>

\* a session task calls update_skill_memory
CallUpdateSkillMemory(t) ==
    /\ started
    /\ skill_tasks[t].pc = "idle"
    /\ \E agent_type \in SkillAgentTypes, body \in Bodies :
          skill_tasks' = [skill_tasks EXCEPT ![t].pc = "json",
                                             ![t].agent_type = agent_type,
                                             ![t].body = body]
    /\ UNCHANGED <<json_store, vector_store, skillFrame>>

\* update_skill_memory up to its first await: json_store.add_document is
\* a plain function, so the read of the collection's file and the write
\* back are one step of the task; a False answer raises StateError
AddSkillToJson(t) ==
    /\ skill_tasks[t].pc = "json"
    /\ \E success \in BOOLEAN :
          LET collection_name == TaskCollection(skill_tasks[t])
          IN  IF success
              THEN /\ json_store' =
                         [json_store EXCEPT ![collection_name] =
                             JsonAddDocument(@, TaskDocument(t))]
                   /\ skill_tasks' =
                         [skill_tasks EXCEPT ![t].pc = "lookup",
                                             ![t].added =
                                                @ \cup {collection_name}]
              ELSE /\ json_store' = json_store
                   /\ skill_tasks' = [skill_tasks EXCEPT ![t].pc = "raised"]
    /\ UNCHANGED <<vector_store, skillFrame>>

\* existing_doc = await self.vector_store.get_document(...)
LookupSkillInVectorDb(t) ==
    /\ skill_tasks[t].pc = "lookup"
    /\ skill_tasks' =
          [skill_tasks EXCEPT ![t].pc = "write",
                              ![t].existing =
                                 VectorHasDocument(
                                    vector_store[TaskCollection(
                                       skill_tasks[t])],
                                    TaskDocument(t).id)]
    /\ UNCHANGED <<json_store, vector_store, skillFrame>>

\* await update_document or add_document of the vector database, by what
\* the lookup answered; the verification that follows only reads
WriteSkillToVectorDb(t) ==
    /\ skill_tasks[t].pc = "write"
    /\ LET collection_name == TaskCollection(skill_tasks[t])
           entry == Entry(TaskDocument(t), NoMetadata)
       IN  vector_store' =
              [vector_store EXCEPT ![collection_name] =
                  IF skill_tasks[t].existing
                  THEN VectorUpdateDocument(@, entry)
                  ELSE VectorAddDocument(@, entry)]
    /\ skill_tasks' = [skill_tasks EXCEPT ![t].pc = "returned"]
    /\ UNCHANGED <<json_store, skillFrame>>

\* the memory manager of the process is initialized once, before the
\* sessions run
StartMemorySystem ==
    /\ ~started
    /\ InitializeMemorySystem

InitSkillTasks ==
    /\ ablation_str = "none"
    /\ GraphAtRest
    /\ FunctionsIdle
    /\ TrainingIdle
    /\ sessions_table = NoSessions
    /\ api_response = NoResponse
    /\ skill_tasks = [t \in SkillTasks |-> SkillTaskIdle]
    /\ sessions_file = NoFile
    /\ save_tasks = NoTasks

NextSkillTasks ==
    \/ StartMemorySystem
    \/ \E t \in SkillTasks : CallUpdateSkillMemory(t)
    \/ \E t \in SkillTasks : AddSkillToJson(t)
    \/ \E t \in SkillTasks : LookupSkillInVectorDb(t)
    \/ \E t \in SkillTasks : WriteSkillToVectorDb(t)

SpecSkillTasks == InitSkillTasks /\ [][NextSkillTasks]_vars

\* every add_document call that was made has returned
AllAddsReturned == \A t \in SkillTasks : skill_tasks[t].pc # "json"

\* C39: once the add_document calls of the session tasks have returned,
\* every document a call added is in its primary collection
C39_NoSkillWriteLost ==
    AllAddsReturned =>
       \A t \in SkillTasks :
          \A collection_name \in skill_tasks[t].added :
             SkillId(SkillTaskNames[t]) \in Ids(json_store[collection_name])

\* two tasks have added their documents to the same primary collection
C39_Witness ==
    /\ AllAddsReturned
    /\ \E t1, t2 \in SkillTasks :
          /\ t1 # t2
          /\ skill_tasks[t1].added \cap skill_tasks[t2].added # {}

\* ---------------------------------------------------------------------
\* Request tasks that update their sessions in the session repository
\* (app/data_access/repositories/session_repository.py)
\* ---------------------------------------------------------------------

\* request tasks on the event loop, one session each, and the updates
\* each of them makes
SaveTaskCount == 2
MaxUpdates == 1

SaveTasks == 1..SaveTaskCount

\* _load_data at startup: the table holds the sessions of the file
LoadedSessions ==
    [session_id \in SaveTasks |->
        RepoCreate(NoSessions, session_id, EmptyState)[1]]

\* the states a controller hands to update
NewStates == { [current_phase |-> phase] : phase \in {"consultation",
                                                      "completed"} }

\* a task outside update: no file object, nothing buffered
SaveTaskIdle == [pc |-> "idle", buffer |-> NoFile, updates |-> 0]

saveFrame == <<memVars, graphVars, functionVars, trainingVars, api_response,
               skill_tasks>>

\* aiofiles.open(SESSIONS_FILE, 'w') in the worker thread
OpenForWriting(file) == NoFile

\* json.dumps(_sessions_table, ...) when the task calls f.write
DumpSessions(table) == table

\* SessionRepository.update up to the first await of _save_data: the row
\* in memory is changed and the file is about to be opened
Update(t, new_state) ==
    /\ save_tasks[t].pc = "idle"
    /\ save_tasks[t].updates < MaxUpdates
    /\ sessions_table' = RepoUpdate(sessions_table, t, new_state)
    /\ save_tasks' = [save_tasks EXCEPT ![t].pc = "open", ![t].updates = @ + 1]
    /\ UNCHANGED <<sessions_file, saveFrame>>

\* the worker thread opens the file for the task and truncates it
OpenSessionsFile(t) ==
    /\ save_tasks[t].pc = "open"
    /\ sessions_file' = OpenForWriting(sessions_file)
    /\ save_tasks' = [save_tasks EXCEPT ![t].pc = "dump"]
    /\ UNCHANGED <<sessions_table, saveFrame>>

\* the task resumes and calls f.write with the table as it is now
DumpSessionsTable(t) ==
    /\ save_tasks[t].pc = "dump"
    /\ save_tasks' = [save_tasks EXCEPT ![t].pc = "write",
                                        ![t].buffer =
                                           DumpSessions(sessions_table)]
    /\ UNCHANGED <<sessions_table, sessions_file, saveFrame>>

\* the worker thread writes the text: it reaches the file now, or stays
\* in the buffer of the file object until the file is closed
WriteSessionsFile(t) ==
    /\ save_tasks[t].pc = "write"
    /\ \E through \in BOOLEAN :
          IF through
          THEN /\ sessions_file' = save_tasks[t].buffer
               /\ save_tasks' = [save_tasks EXCEPT ![t].pc = "close",
                                                   ![t].buffer = NoFile]
          ELSE /\ sessions_file' = sessions_file
               /\ save_tasks' = [save_tasks EXCEPT ![t].pc = "close"]
    /\ UNCHANGED <<sessions_table, saveFrame>>

\* leaving the async with closes the file, which flushes the buffer
CloseSessionsFile(t) ==
    /\ save_tasks[t].pc = "close"
    /\ sessions_file' = IF save_tasks[t].buffer = NoFile THEN sessions_file
                        ELSE save_tasks[t].buffer
    /\ save_tasks' = [save_tasks EXCEPT ![t].pc = "index",
                                        ![t].buffer = NoFile]
    /\ UNCHANGED <<sessions_table, saveFrame>>

\* the user index, which an update leaves as it was, is written to its
\* own file and update returns
SaveUserIndex(t) ==
    /\ save_tasks[t].pc = "index"
    /\ save_tasks' = [save_tasks EXCEPT ![t].pc = "idle"]
    /\ UNCHANGED <<sessions_table, sessions_file, saveFrame>>

InitRepository ==
    /\ ablation_str = "none"
    /\ GraphAtRest
    /\ FunctionsIdle
    /\ TrainingIdle
    /\ sessions_table = LoadedSessions
    /\ api_response = NoResponse
    /\ skill_tasks = NoTasks
    /\ sessions_file = LoadedSessions
    /\ save_tasks = [t \in SaveTasks |-> SaveTaskIdle]

NextRepository ==
    \/ \E t \in SaveTasks, new_state \in NewStates : Update(t, new_state)
    \/ \E t \in SaveTasks : OpenSessionsFile(t)
    \/ \E t \in SaveTasks : DumpSessionsTable(t)
    \/ \E t \in SaveTasks : WriteSessionsFile(t)
    \/ \E t \in SaveTasks : CloseSessionsFile(t)
    \/ \E t \in SaveTasks : SaveUserIndex(t)

SpecRepository == InitRepository /\ [][NextRepository]_vars

\* every update call that was made has completed
AllUpdatesCompleted == \A t \in SaveTasks : save_tasks[t].pc = "idle"

\* C40: once the update calls of the request tasks have completed, the
\* sessions file holds the latest state of every session
C40_FileHoldsLatestStates ==
    AllUpdatesCompleted =>
       /\ DOMAIN sessions_file = DOMAIN sessions_table
       /\ \A session_id \in DOMAIN sessions_table :
             sessions_file[session_id].state =
                sessions_table[session_id].state

====
